---- MODULE Spec2Model ----
(***************************************************************************)
(* Job-search aggregation and relevance filtering of FullStack_proj:       *)
(* the job-suggestions handler of routers/services.py and the provider     *)
(* services it drives (services/arbeitnow_api.py, google_jobs_api.py),     *)
(* plus services/jsearch_api.py.  Text is kept as strings and the Python   *)
(* string operations (lower, strip, split, join, substring test) are       *)
(* computed character by character.                                        *)
(***************************************************************************)
EXTENDS Integers, Sequences, FiniteSets, TLC

VARIABLES
    pc,          \* position of get_job_suggestions: idle, primary, decide, done, error
    req,         \* the request being served: keywords, location, experience_level, limit
    jobs,        \* the handler's local list `jobs`
    result,      \* the list the handler returned
    calls,       \* provider search_jobs invocations of this request, in call order,
                 \* each with its limit, the backend's answer and the list returned
    backend,     \* HTTP queries the providers sent to their backends, in order
    primaryRaw,  \* history: the provider records behind the primary's returned jobs
    probe        \* one call of a service method made on its own: arguments and result

vars == <<pc, req, jobs, result, calls, backend, primaryRaw, probe>>

---------------------------------------------------------------------------
(* Bounds of the model.                                                    *)

\* largest `limit` a request carries (the handler admits 1..50)
MaxLimit == 2
\* longest job list a provider backend answers with (orchestrator runs)
MaxResp == 2
\* longest job list a JSearch backend answers with
MaxJSResp == 5
\* longest job list handed to a filter called on its own
MaxFilterLen == 3
\* number of candidate jobs in the one-senior-among-juniors lists
ScenarioLen == 10

\* longest job list the strict location filter is called with
MaxLocLen == 2

\* longest job list the light location filter is called with
MaxLightLen == 11

---------------------------------------------------------------------------
(* Python strings and lists.                                               *)

Min(a, b) == IF a <= b THEN a ELSE b
Max(a, b) == IF a >= b THEN a ELSE b

\* the lowercase of each uppercase letter
LowerTable ==
    ("A" :> "a") @@ ("B" :> "b") @@ ("C" :> "c") @@ ("D" :> "d") @@ ("E" :> "e")
    @@ ("F" :> "f") @@ ("G" :> "g") @@ ("H" :> "h") @@ ("I" :> "i") @@ ("J" :> "j")
    @@ ("K" :> "k") @@ ("L" :> "l") @@ ("M" :> "m") @@ ("N" :> "n") @@ ("O" :> "o")
    @@ ("P" :> "p") @@ ("Q" :> "q") @@ ("R" :> "r") @@ ("S" :> "s") @@ ("T" :> "t")
    @@ ("U" :> "u") @@ ("V" :> "v") @@ ("W" :> "w") @@ ("X" :> "x") @@ ("Y" :> "y")
    @@ ("Z" :> "z")

\* str.lower() on one character
LowerChar(c) == IF c \in DOMAIN LowerTable THEN LowerTable[c] ELSE c

\* str.lower(): a string without uppercase letter as it is, else every
\* character lowered, the two halves one after the other
RECURSIVE Lower(_)
Lower(s) ==
    IF \A i \in 1..Len(s) : SubSeq(s, i, i) \notin DOMAIN LowerTable THEN s
    ELSE IF Len(s) = 1 THEN LowerChar(s)
    ELSE LET half == Len(s) \div 2
         IN  Lower(SubSeq(s, 1, half)) \o Lower(SubSeq(s, half + 1, Len(s)))

\* `t in s` on strings: t occurs in s as a substring
Contains(t, s) ==
    \E i \in 1..(Len(s) - Len(t) + 1) : SubSeq(s, i, i + Len(t) - 1) = t

\* str.strip(): surrounding blanks removed
RECURSIVE Strip(_)
Strip(s) ==
    IF s = "" THEN ""
    ELSE IF SubSeq(s, 1, 1) = " " THEN Strip(SubSeq(s, 2, Len(s)))
    ELSE IF SubSeq(s, Len(s), Len(s)) = " " THEN Strip(SubSeq(s, 1, Len(s) - 1))
    ELSE s

\* str.split(): the maximal blank-free pieces, in order
RECURSIVE SplitFrom(_, _, _)
SplitFrom(s, i, cur) ==
    IF i > Len(s) THEN (IF cur = "" THEN <<>> ELSE <<cur>>)
    ELSE LET c == SubSeq(s, i, i)
         IN  IF c = " "
             THEN (IF cur = "" THEN <<>> ELSE <<cur>>) \o SplitFrom(s, i + 1, "")
             ELSE SplitFrom(s, i + 1, cur \o c)

Split(s) == SplitFrom(s, 1, "")

\* sep.join(parts)
RECURSIVE Join(_, _)
Join(sep, parts) ==
    IF parts = <<>> THEN ""
    ELSE IF Len(parts) = 1 THEN parts[1]
    ELSE parts[1] \o sep \o Join(sep, Tail(parts))

\* str.replace(old, new) for a one-character old
RECURSIVE ReplaceChar(_, _, _)
ReplaceChar(s, old, new) ==
    IF s = "" THEN ""
    ELSE (IF SubSeq(s, 1, 1) = old THEN new ELSE SubSeq(s, 1, 1))
         \o ReplaceChar(SubSeq(s, 2, Len(s)), old, new)

\* list[:n + 1]: the slice taken one element too long
Take_OneMore(s, n) == SubSeq(s, 1, Min(Max(n + 1, 0), Len(s)))

\* list[:n]
Take(s, n) == SubSeq(s, 1, Min(Max(n, 0), Len(s)))

\* the elements of a list, as a set
Range(s) == {s[i] : i \in 1..Len(s)}

\* the lists over S without a repeated element, of length at most n
InjSeqs(S, n) ==
    UNION {{q \in [1..k -> S] : \A i, j \in 1..k : q[i] = q[j] => i = j} : k \in 0..n}

\* the lists over S of length at most n
SeqsUpTo(S, n) == UNION {[1..k -> S] : k \in 0..n}

\* the elements of s at the positions in K, from position i on, in order
RECURSIVE AtPositions(_, _, _)
AtPositions(s, K, i) ==
    IF i > Len(s) THEN <<>>
    ELSE (IF i \in K THEN <<s[i]>> ELSE <<>>) \o AtPositions(s, K, i + 1)

\* the lists of at most n elements of s, in the order s has them
SubLists(s, n) ==
    {AtPositions(s, K, 1) : K \in {X \in SUBSET (1..Len(s)) : Cardinality(X) <= n}}

---------------------------------------------------------------------------
(* Exceptions: a body ends by returning a value or by raising a class; an  *)
(* except clause catches the classes below the one it names.               *)

NoExc == "none"

\* the exception class hierarchy used by the services
IsInstance(exc, cls) ==
    \/ exc = cls
    \/ cls = "Exception" /\ exc # NoExc
    \/ cls = "RequestException"
          /\ exc \in {"Timeout", "ConnectionError", "HTTPError", "JSONDecodeError"}
    \/ cls = "HTTPException"
          /\ exc \in {"HTTPException429", "HTTPException500", "HTTPException503",
                      "HTTPException504"}

Returned(v) == [exc |-> NoExc, value |-> v]
Raised(e) == [exc |-> e, value |-> <<>>]

\* requests.get(..., timeout=30); raise_for_status(); response.json():
\* what the three calls leave behind for each kind of backend answer
HttpJson(response) ==
    CASE response.kind = "timeout"    -> Raised("Timeout")
      [] response.kind = "refused"    -> Raised("ConnectionError")
      [] response.kind = "http_error" -> Raised("HTTPError")
      [] response.kind = "bad_json"   -> Raised("JSONDecodeError")
      [] OTHER                        -> Returned(response)

\* the kinds of answer a backend gives besides a well-formed job list
FailureResponses ==
    {[kind |-> k, status |-> 0, data |-> <<>>] : k \in {"timeout", "refused", "bad_json"}}
    \cup {[kind |-> "http_error", status |-> s, data |-> <<>>] : s \in {401, 429, 500}}
    \cup {[kind |-> "json_null", status |-> 200, data |-> <<>>],
          [kind |-> "empty_object", status |-> 200, data |-> <<>>]}

OkResponse(data) == [kind |-> "ok", status |-> 200, data |-> data]

---------------------------------------------------------------------------
(* services/arbeitnow_api.py: ArbeitnowService.                            *)

\* the words that select remote work instead of a place
RemoteWords == {"remote", "anywhere", "global"}

\* ArbeitnowService._normalize_location: the alias table
ArbeitnowLocationMappings ==
    ("tel aviv" :> "tel aviv") @@ ("tel-aviv" :> "tel aviv") @@ ("telaviv" :> "tel aviv")
    @@ ("israel" :> "israel") @@ ("jerusalem" :> "jerusalem") @@ ("haifa" :> "haifa")
    @@ ("new york" :> "new york") @@ ("nyc" :> "new york") @@ ("sf" :> "san francisco")
    @@ ("san francisco" :> "san francisco") @@ ("la" :> "los angeles")
    @@ ("los angeles" :> "los angeles") @@ ("london" :> "london") @@ ("paris" :> "paris")
    @@ ("berlin" :> "berlin") @@ ("munich" :> "munich") @@ ("amsterdam" :> "amsterdam")
    @@ ("barcelona" :> "barcelona") @@ ("madrid" :> "madrid") @@ ("rome" :> "rome")
    @@ ("milan" :> "milan") @@ ("vienna" :> "vienna") @@ ("zurich" :> "zurich")
    @@ ("stockholm" :> "stockholm") @@ ("copenhagen" :> "copenhagen") @@ ("oslo" :> "oslo")
    @@ ("dublin" :> "dublin") @@ ("tokyo" :> "tokyo")

\* a normalizer that looks the location up as it was typed
Arbeitnow_normalize_location_AsTyped(location) ==
    IF location \in DOMAIN ArbeitnowLocationMappings
    THEN ArbeitnowLocationMappings[location] ELSE location

\* ArbeitnowService._normalize_location
Arbeitnow_normalize_location(location) ==
    IF location = "" THEN location
    ELSE LET l == Lower(Strip(location))
         IN  IF l \in DOMAIN ArbeitnowLocationMappings
             THEN ArbeitnowLocationMappings[l] ELSE l

\* the words _filter_jobs_by_keywords removes from the keyword string
Stopwords == {"and", "or", "the", "a", "an", "in", "at", "of", "for", "with"}

\* tech_variations of _filter_jobs_by_keywords
TechVariations ==
    ("js" :> {"javascript", "js"}) @@ ("javascript" :> {"javascript", "js"})
    @@ ("python" :> {"python", "django", "flask"})
    @@ ("react" :> {"react", "reactjs", "react.js"})
    @@ ("vue" :> {"vue", "vuejs", "vue.js"})
    @@ ("angular" :> {"angular", "angularjs"})
    @@ ("node" :> {"node", "nodejs", "node.js"})
    @@ ("ai" :> {"ai", "artificial intelligence", "machine learning", "ml"})
    @@ ("ml" :> {"machine learning", "ml", "ai"})
    @@ ("data" :> {"data", "analytics", "scientist"})
    @@ ("software" :> {"software", "engineer", "developer", "programming"})
    @@ ("frontend" :> {"frontend", "front-end", "ui", "user interface"})
    @@ ("backend" :> {"backend", "back-end", "api", "server"})
    @@ ("fullstack" :> {"fullstack", "full-stack", "full stack"})
    @@ ("devops" :> {"devops", "dev ops", "infrastructure", "cloud"})
    @@ ("mobile" :> {"mobile", "ios", "android", "react native", "flutter"})

\* search_terms: the lowercased tokens of the keyword string that are no stopword
SearchTerms(keywords) == {t \in Range(Split(Lower(keywords))) : t \notin Stopwords}

\* expanded_terms: the search terms and the variations of each
Expand(search_terms) ==
    search_terms \cup UNION {TechVariations[t] : t \in search_terms \cap DOMAIN TechVariations}

ExpandedTerms(keywords) == Expand(SearchTerms(keywords))

\* searchable_text of a provider record: title, description, tags and job types
SearchableText(job) ==
    Join(" ", <<Lower(job.title), Lower(job.description),
                Lower(Join(" ", job.tags)), Lower(Join(" ", job.job_types))>>)

\* matches: how many of the expanded terms occur in the record's searchable text
KeywordMatches(job, expanded_terms) ==
    LET searchable_text == SearchableText(job)
    IN  Cardinality({t \in expanded_terms : Contains(t, searchable_text)})

\* the keep test without its `len(search_terms) == 0` alternative
KeywordKeep_MatchesOnly(matches, search_terms) == matches > 0

\* the test that lets a record into filtered_jobs
KeywordKeep(matches, search_terms) == matches > 0 \/ Cardinality(search_terms) = 0

\* list.sort(key=relevance_score, reverse=True): stable, highest score first
RECURSIVE SortByRelevance(_)
SortByRelevance(s) ==
    IF s = <<>> THEN <<>>
    ELSE LET front == SortByRelevance(SubSeq(s, 1, Len(s) - 1))
             x     == s[Len(s)]
             k     == Cardinality({i \in 1..Len(front) :
                                      front[i].relevance_score >= x.relevance_score})
         IN  SubSeq(front, 1, k) \o <<x>> \o SubSeq(front, k + 1, Len(front))

\* the loop of _filter_jobs_by_keywords: the kept records, each with its score
RECURSIVE KeywordLoop(_, _, _)
KeywordLoop(js, search_terms, expanded_terms) ==
    IF js = <<>> THEN <<>>
    ELSE LET job     == Head(js)
             matches == KeywordMatches(job, expanded_terms)
         IN  (IF KeywordKeep(matches, search_terms)
              THEN <<[job EXCEPT !.relevance_score = matches]>> ELSE <<>>)
             \o KeywordLoop(Tail(js), search_terms, expanded_terms)

\* the loop with the append moved into the loop over the terms: a record is
\* appended once for every term found in it
RECURSIVE KeywordLoop_PerTerm(_, _, _)
KeywordLoop_PerTerm(js, search_terms, expanded_terms) ==
    IF js = <<>> THEN <<>>
    ELSE LET job     == Head(js)
             matches == KeywordMatches(job, expanded_terms)
         IN  [i \in 1..(IF Cardinality(search_terms) = 0 THEN 1 ELSE matches) |->
                 [job EXCEPT !.relevance_score = matches]]
             \o KeywordLoop_PerTerm(Tail(js), search_terms, expanded_terms)

\* _filter_jobs_by_keywords built on that loop
filter_jobs_by_keywords_PerTerm(js, keywords) ==
    IF js = <<>> \/ keywords = "" THEN js
    ELSE LET search_terms   == SearchTerms(keywords)
             expanded_terms == Expand(search_terms)
         IN  SortByRelevance(KeywordLoop_PerTerm(js, search_terms, expanded_terms))

\* _filter_jobs_by_keywords without its closing sort
filter_jobs_by_keywords_Unsorted(js, keywords) ==
    IF js = <<>> \/ keywords = "" THEN js
    ELSE LET search_terms   == SearchTerms(keywords)
             expanded_terms == Expand(search_terms)
         IN  KeywordLoop(js, search_terms, expanded_terms)

\* ArbeitnowService._filter_jobs_by_keywords
filter_jobs_by_keywords(js, keywords) ==
    IF js = <<>> \/ keywords = "" THEN js
    ELSE LET search_terms   == SearchTerms(keywords)
             expanded_terms == Expand(search_terms)
         IN  SortByRelevance(KeywordLoop(js, search_terms, expanded_terms))

\* location_mappings of _filter_jobs_by_location: city to the terms it implies
\* (the source's "m<u-umlaut>nchen" is written "mu:nchen"; no modelled text holds it)
ArbeitnowCityTerms ==
    ("tel aviv" :> {"tel aviv", "israel"})
    @@ ("washington" :> {"washington", "dc", "usa", "united states"})
    @@ ("new york" :> {"new york", "ny", "nyc", "usa", "united states"})
    @@ ("san francisco" :> {"san francisco", "sf", "california", "ca", "usa"})
    @@ ("london" :> {"london", "uk", "united kingdom", "england"})
    @@ ("paris" :> {"paris", "france"})
    @@ ("berlin" :> {"berlin", "germany"})
    @@ ("munich" :> {"munich", "mu:nchen", "germany"})
    @@ ("amsterdam" :> {"amsterdam", "netherlands"})

\* full_location_text of a provider record
FullLocationText(job) ==
    Strip(Lower(job.location) \o " " \o Lower(job.city) \o " " \o Lower(job.country))

\* is_remote_job: the remote flag, "remote" in the location text, or a remote tag
IsRemoteJob(job) ==
    \/ job.remote
    \/ Contains("remote", FullLocationText(job))
    \/ \E i \in 1..Len(job.tags) :
          Lower(job.tags[i]) \in {"remote", "home office", "homeoffice"}

\* location_keywords: the words of the normalized location
LocationKeywords(location) == Range(Split(Arbeitnow_normalize_location(location)))

\* a keyword loop that takes whole words only
LocationKeywordMatch_WholeWord(job, location_keywords) ==
    LET job_location == Lower(job.location)
        job_city     == Lower(job.city)
        job_country  == Lower(job.country)
    IN  \E kw \in location_keywords :
            /\ Len(kw) > 2
            /\ \/ kw \in Range(Split(job_location))
               \/ kw \in Range(Split(job_city))
               \/ kw \in Range(Split(job_country))

\* the keyword loop of _filter_jobs_by_location: a keyword longer than 2 is a
\* word of a location field, or occurs inside the location or the city text
LocationKeywordMatch(job, location_keywords) ==
    LET job_location == Lower(job.location)
        job_city     == Lower(job.city)
        job_country  == Lower(job.country)
    IN  \E kw \in location_keywords :
            /\ Len(kw) > 2
            /\ \/ kw \in Range(Split(job_location))
               \/ kw \in Range(Split(job_city))
               \/ kw \in Range(Split(job_country))
               \/ Contains(kw, job_location)
               \/ Contains(kw, job_city)

\* the city table of _filter_jobs_by_location, asked when no keyword matched
LocationTableMatch(job, search_location) ==
    /\ search_location \in DOMAIN ArbeitnowCityTerms
    /\ LET full_location_text == FullLocationText(job)
       IN  \E term \in ArbeitnowCityTerms[search_location] :
               Contains(term, full_location_text)

\* whether _filter_jobs_by_location keeps a record
LocationKeepWith(job, search_location, location_keywords) ==
    IF search_location \in RemoteWords
    THEN IsRemoteJob(job)
    ELSE \/ LocationKeywordMatch(job, location_keywords)
         \/ LocationTableMatch(job, search_location)

LocationKeep(job, location) ==
    LocationKeepWith(job, Lower(location), LocationKeywords(location))

\* ArbeitnowService._filter_jobs_by_location
filter_jobs_by_location(js, location) ==
    IF js = <<>> \/ location = "" THEN js
    ELSE LET search_location   == Lower(location)
             location_keywords == LocationKeywords(location)
             Keep(job) == LocationKeepWith(job, search_location, location_keywords)
         IN  SelectSeq(js, Keep)

\* level_keywords of ArbeitnowService.search_jobs
ArbeitnowLevelKeywords ==
    ("internship" :> {"intern", "internship", "trainee"})
    @@ ("entry_level" :> {"junior", "entry", "graduate", "entry-level"})
    @@ ("associate" :> {"associate", "mid", "intermediate"})
    @@ ("mid_senior" :> {"senior", "lead", "principal"})
    @@ ("director" :> {"director", "manager", "head"})
    @@ ("executive" :> {"executive", "ceo", "cto", "vp", "vice president"})

\* experience_filtered: the records whose title or description holds a level keyword
ArbeitnowExperienceFiltered(js, experience_level) ==
    LET Keep(job) ==
            LET job_text == Lower(job.title) \o " " \o Lower(job.description)
            IN  \E kw \in ArbeitnowLevelKeywords[experience_level] :
                    Contains(kw, job_text)
    IN  SelectSeq(js, Keep)

\* the smallest filtered list search_jobs puts in place of its input
\* (`if experience_filtered:`)
ArbeitnowExperienceFloor == 1

\* the experience stage of ArbeitnowService.search_jobs
ArbeitnowExperienceStage(js, experience_level) ==
    IF experience_level # "" /\ experience_level \in DOMAIN ArbeitnowLevelKeywords
    THEN LET experience_filtered == ArbeitnowExperienceFiltered(js, experience_level)
         IN  IF Len(experience_filtered) >= ArbeitnowExperienceFloor
             THEN experience_filtered ELSE js
    ELSE js

\* the standardized record ArbeitnowService.search_jobs builds from a provider
\* record (url, posted_date and the salary fields are left out of the model)
ArbeitnowStandardize(job) ==
    [title           |-> job.title,
     company         |-> job.company_name,
     location        |-> IF job.location # "" THEN job.location ELSE "Remote",
     description     |-> job.description,
     employment_type |-> "FULLTIME",
     currency        |-> "",
     is_remote       |-> job.remote,
     job_id          |-> job.slug,
     tags            |-> job.tags,
     source          |-> "arbeitnow"]

\* `jobs` of search_jobs as its experience stage receives it: the keyword
\* filter when the query has a non-blank character, the location filter when
\* the location is given and is no remote word
ArbeitnowBeforeExperience(query, location, data) ==
    LET afterKw == IF query # "" /\ Strip(query) # ""
                   THEN filter_jobs_by_keywords(data, query) ELSE data
    IN  IF location # "" /\ Lower(location) \notin RemoteWords
        THEN filter_jobs_by_location(afterKw, location) ELSE afterKw

\* the records search_jobs standardizes: the filter chain, then jobs[:limit]
ArbeitnowKept(query, location, experience_level, limit, data) ==
    Take(ArbeitnowExperienceStage(ArbeitnowBeforeExperience(query, location, data),
                                  experience_level),
         limit)

\* the query search_jobs sends: the remote flag is its only parameter
ArbeitnowQuery(location) ==
    [provider |-> "arbeitnow",
     remote   |-> (location = "" \/ Lower(location) \in RemoteWords)]

\* the try block of ArbeitnowService.search_jobs
ArbeitnowTry(query, location, experience_level, limit, response) ==
    LET got == HttpJson(response)
    IN  IF got.exc # NoExc THEN got
        ELSE IF response.kind = "json_null" THEN Raised("AttributeError")
        ELSE IF response.data = <<>> THEN Returned(<<>>)
        ELSE LET kept == ArbeitnowKept(query, location, experience_level, limit,
                                       response.data)
             IN  Returned([i \in 1..Len(kept) |-> ArbeitnowStandardize(kept[i])])

\* the except clauses without the closing `except Exception`
SearchJobsHandlers_RequestOnly == <<"RequestException">>

\* the except clauses of the search_jobs methods, in order
SearchJobsHandlers == <<"RequestException", "Exception">>

\* try/except: the value of the try block when it returns, [] when a clause
\* catches what it raised, and the exception when none does
TryExcept(outcome, handlers) ==
    IF outcome.exc = NoExc THEN outcome
    ELSE IF \E i \in 1..Len(handlers) : IsInstance(outcome.exc, handlers[i])
    THEN Returned(<<>>)
    ELSE outcome

\* ArbeitnowService.search_jobs
Arbeitnow_search_jobs(query, location, experience_level, limit, response) ==
    TryExcept(ArbeitnowTry(query, location, experience_level, limit, response),
              SearchJobsHandlers)

---------------------------------------------------------------------------
(* services/google_jobs_api.py: AdzunaJobsService.                         *)

\* country_mapping of AdzunaJobsService.search_jobs, in the order it is walked
AdzunaCountryMapping ==
    << <<"washington", "us">>, <<"united states", "us">>, <<"usa", "us">>,
       <<"new york", "us">>, <<"california", "us">>, <<"texas", "us">>,
       <<"florida", "us">>, <<"london", "gb">>, <<"uk", "gb">>,
       <<"united kingdom", "gb">>, <<"manchester", "gb">>, <<"birmingham", "gb">>,
       <<"berlin", "de">>, <<"germany", "de">>, <<"munich", "de">>,
       <<"hamburg", "de">>, <<"paris", "fr">>, <<"france", "fr">>, <<"lyon", "fr">>,
       <<"marseille", "fr">>, <<"amsterdam", "nl">>, <<"netherlands", "nl">>,
       <<"rotterdam", "nl">>, <<"toronto", "ca">>, <<"canada", "ca">>,
       <<"vancouver", "ca">>, <<"montreal", "ca">>, <<"sydney", "au">>,
       <<"australia", "au">>, <<"melbourne", "au">>, <<"brisbane", "au">> >>

\* country_code after the mapping loop: the code of the first key found in the
\* lowercased location, "" (None) when there is none or no location
AdzunaMappedCountry(location) ==
    LET location_lower == Lower(location)
        hits == {i \in 1..Len(AdzunaCountryMapping) :
                    Contains(AdzunaCountryMapping[i][1], location_lower)}
    IN  IF location = "" \/ hits = {} THEN ""
        ELSE AdzunaCountryMapping[CHOOSE i \in hits : \A j \in hits : i <= j][2]

\* search_jobs without the early return for Tel Aviv and Israel
AdzunaUnsupported_Never(location) == FALSE

\* the locations search_jobs declines: no mapped country and Tel Aviv or Israel
AdzunaUnsupported(location) ==
    /\ location # ""
    /\ AdzunaMappedCountry(location) = ""
    /\ LET location_check == Lower(location)
       IN  Contains("tel aviv", location_check) \/ Contains("israel", location_check)

\* country_code the query is routed to: the mapped country, else the US
AdzunaCountryCode(location) ==
    LET country_code == AdzunaMappedCountry(location)
    IN  IF country_code # "" THEN country_code ELSE "us"

\* level_terms of AdzunaJobsService.search_jobs
AdzunaLevelTerms ==
    ("internship" :> "intern internship") @@ ("entry_level" :> "entry level junior")
    @@ ("associate" :> "associate") @@ ("mid_senior" :> "senior mid level")
    @@ ("director" :> "director manager") @@ ("executive" :> "executive VP president")

\* search_query: the query, with the level's terms appended when it has any
AdzunaSearchQuery(query, experience_level) ==
    IF experience_level # "" /\ experience_level \in DOMAIN AdzunaLevelTerms
    THEN query \o " " \o AdzunaLevelTerms[experience_level]
    ELSE query

\* the most results one Adzuna page is asked for
AdzunaPageCap == 50

\* the query search_jobs sends ("where" is "" when no location is given)
AdzunaQuery(query, location, experience_level, limit) ==
    [provider         |-> "adzuna",
     country          |-> AdzunaCountryCode(location),
     what             |-> AdzunaSearchQuery(query, experience_level),
     where            |-> location,
     results_per_page |-> Min(limit, AdzunaPageCap)]

\* the length a description is cut to
AdzunaDescriptionCut == 500

\* the standardized record AdzunaJobsService.search_jobs builds from a provider
\* record (url, posted_date and the salary bounds are left out of the model)
AdzunaStandardize(job, country_code) ==
    [title           |-> job.title,
     company         |-> job.company,
     location        |-> IF job.display_name # "" THEN job.display_name
                         ELSE IF job.area # <<>> THEN job.area[1] ELSE "",
     description     |-> Take(job.description, AdzunaDescriptionCut) \o "...",
     employment_type |-> IF job.contract_type # "" THEN job.contract_type ELSE "FULLTIME",
     currency        |-> IF country_code = "us" THEN "USD" ELSE "EUR",
     is_remote       |-> LET job_title == Lower(job.title)
                             job_desc  == Lower(job.description)
                         IN  \/ Contains("remote", job_title)
                             \/ Contains("remote", job_desc)
                             \/ Contains("work from home", job_desc)
                             \/ Contains("wfh", job_desc),
     job_id          |-> job.id,
     source          |-> "adzuna"]

\* the try block of AdzunaJobsService.search_jobs
AdzunaTry(query, location, experience_level, limit, response) ==
    IF AdzunaUnsupported(location) THEN Returned(<<>>)
    ELSE LET got == HttpJson(response)
         IN  IF got.exc # NoExc THEN got
             ELSE IF response.kind = "json_null" THEN Raised("TypeError")
             ELSE IF response.kind = "empty_object" THEN Returned(<<>>)
             ELSE IF response.data = <<>> THEN Returned(<<>>)
             ELSE LET kept         == Take(response.data, limit)
                      country_code == AdzunaCountryCode(location)
                  IN  Returned([i \in 1..Len(kept) |->
                                   AdzunaStandardize(kept[i], country_code)])

\* AdzunaJobsService.search_jobs
Adzuna_search_jobs(query, location, experience_level, limit, response) ==
    TryExcept(AdzunaTry(query, location, experience_level, limit, response),
              SearchJobsHandlers)

\* a search_jobs call that sends its query a second time
AdzunaQueries_Again(query, location, experience_level, limit) ==
    LET q == AdzunaQuery(query, location, experience_level, limit)
    IN  IF AdzunaUnsupported(location) THEN <<>> ELSE <<q, q>>

\* the queries a search_jobs call of the secondary sends: none for a declined
\* location, else the one query
AdzunaQueries(query, location, experience_level, limit) ==
    IF AdzunaUnsupported(location) THEN <<>>
    ELSE <<AdzunaQuery(query, location, experience_level, limit)>>

---------------------------------------------------------------------------
(* services/jsearch_api.py: JSearchService.                                *)

\* location_mappings of JSearchService._normalize_location
JSearchLocationMappings ==
    ("tel aviv" :> "Tel Aviv, Israel") @@ ("tel-aviv" :> "Tel Aviv, Israel")
    @@ ("telaviv" :> "Tel Aviv, Israel") @@ ("israel" :> "Israel")
    @@ ("jerusalem" :> "Jerusalem, Israel") @@ ("haifa" :> "Haifa, Israel")
    @@ ("new york" :> "New York, NY") @@ ("nyc" :> "New York, NY")
    @@ ("sf" :> "San Francisco, CA") @@ ("san francisco" :> "San Francisco, CA")
    @@ ("la" :> "Los Angeles, CA") @@ ("los angeles" :> "Los Angeles, CA")
    @@ ("london" :> "London, UK") @@ ("paris" :> "Paris, France")
    @@ ("berlin" :> "Berlin, Germany") @@ ("tokyo" :> "Tokyo, Japan")

\* JSearchService._normalize_location
JSearch_normalize_location(location) ==
    IF location = "" THEN location
    ELSE LET stripped       == Strip(location)
             location_lower == Lower(stripped)
         IN  IF location_lower \in DOMAIN JSearchLocationMappings
             THEN JSearchLocationMappings[location_lower] ELSE stripped

\* experience_mappings of JSearchService._get_experience_keywords
JSearchExperienceMappings ==
    ("internship" :> "intern internship student")
    @@ ("entry_level" :> "entry level junior graduate new grad")
    @@ ("mid_level" :> "mid level experienced")
    @@ ("mid_senior" :> "senior experienced lead")
    @@ ("senior" :> "senior lead principal staff")
    @@ ("executive" :> "director executive VP manager")

\* JSearchService._get_experience_keywords
get_experience_keywords(experience_level) ==
    LET level == Lower(experience_level)
    IN  IF level \in DOMAIN JSearchExperienceMappings
        THEN JSearchExperienceMappings[level] ELSE ""

\* english_regions + us_regions of _should_add_experience_to_query
EnglishRegions ==
    {"united states", "usa", "us", "america", "canada", "uk", "united kingdom",
     "england", "scotland", "wales", "australia", "new zealand", "ireland",
     "south africa",
     "new york", "california", "texas", "florida", "washington", "seattle",
     "san francisco", "los angeles", "chicago", "boston", "atlanta", "denver",
     "austin", "miami", "philadelphia"}

\* JSearchService._should_add_experience_to_query
should_add_experience_to_query(location) ==
    IF location = "" THEN TRUE
    ELSE LET location_lower == Lower(location)
         IN  \E region \in EnglishRegions : Contains(region, location_lower)

\* an enhanced_query that takes the level's keywords for every location
JSearchEnhancedQuery_AnyLocation(query, normalized_location, experience_level) ==
    LET with_location == IF normalized_location # ""
                         THEN query \o " " \o normalized_location ELSE query
        experience_keywords == IF experience_level # ""
                               THEN get_experience_keywords(experience_level) ELSE ""
    IN  IF experience_keywords # "" THEN with_location \o " " \o experience_keywords
        ELSE with_location

\* enhanced_query: the query, the normalized location and, for a location
\* that takes them, the level's keywords
JSearchEnhancedQuery(query, normalized_location, experience_level) ==
    LET with_location == IF normalized_location # ""
                         THEN query \o " " \o normalized_location ELSE query
        experience_keywords == IF experience_level # ""
                               THEN get_experience_keywords(experience_level) ELSE ""
    IN  IF /\ experience_level # ""
           /\ should_add_experience_to_query(normalized_location)
           /\ experience_keywords # ""
        THEN with_location \o " " \o experience_keywords
        ELSE with_location

\* the supplementary query: no location, the international words appended
JSearchGlobalQuery(query) == query \o " international global remote worldwide"

\* the location is given and takes no experience keywords
JSearchIsInternational(normalized_location) ==
    normalized_location # "" /\ ~should_add_experience_to_query(normalized_location)

\* international_indicators of JSearchService.search_jobs
InternationalIndicators ==
    {"remote", "worldwide", "global", "international", "anywhere",
     "work from home", "distributed", "virtual"}

\* a supplementary filter that lets every record of the batch through
JSearchSupplementKeep_All(job) == TRUE

\* whether the supplementary batch's filter keeps a provider record
JSearchSupplementKeep(job) ==
    \/ job.job_is_remote
    \/ LET job_title == Lower(job.job_title)
           job_desc  == Lower(job.job_description)
       IN  \E indicator \in InternationalIndicators :
               Contains(indicator, job_title) \/ Contains(indicator, job_desc)

\* the duplicate removal of search_jobs: the first record of each
\* (job_id, job_title, employer_name) key, in order
RECURSIVE JSearchUnique(_, _)
JSearchUnique(combined_jobs, seen) ==
    IF combined_jobs = <<>> THEN <<>>
    ELSE LET job     == Head(combined_jobs)
             job_key == <<job.job_id, job.job_title, job.employer_name>>
         IN  IF job_key \in seen THEN JSearchUnique(Tail(combined_jobs), seen)
             ELSE <<job>> \o JSearchUnique(Tail(combined_jobs), seen \cup {job_key})

\* the length of `jobs` below which search_jobs logs "Limited results"
JSearchLimitedBelow == 5

\* the most records search_jobs keeps after combining the two batches
JSearchCombinedCap == 10

\* the supplementary search of search_jobs for an international location:
\* what `jobs` is afterwards, or the exception the step raised
JSearchSupplement(js, global_response) ==
    CASE global_response.kind = "timeout"     -> Raised("Timeout")
      [] global_response.kind = "refused"     -> Raised("ConnectionError")
      [] global_response.kind = "http_error"  -> Returned(js)
      [] global_response.kind = "bad_json"    -> Raised("JSONDecodeError")
      [] global_response.kind = "json_null"   -> Raised("AttributeError")
      [] global_response.kind = "empty_object" -> Returned(js)
      [] OTHER ->
           LET filtered_jobs == SelectSeq(global_response.data, JSearchSupplementKeep)
           IN  IF filtered_jobs # <<>>
               THEN Returned(Take(JSearchUnique(js \o filtered_jobs, {}),
                                  JSearchCombinedCap))
               ELSE Returned(js)

\* info_job: the guidance entry put in front for an international location
JSearchGuidance(normalized_location) ==
    [title           |-> "Job Search Tips for " \o normalized_location,
     company         |-> "Job Search Guidance",
     location        |-> normalized_location,
     city            |-> "",
     state           |-> "",
     country         |-> "",
     description     |->
         "Our current job database focuses primarily on US markets with limited coverage for "
         \o normalized_location
         \o ". For better results in your region, we recommend: 1) Use local job boards like Jobs.ch (Switzerland), StepStone (Germany), or LinkedIn for international opportunities, 2) Search without location to find remote positions that accept international candidates, 3) Try broader search terms like your profession + 'remote' or 'international', 4) Consider major European cities like London, Berlin, or Amsterdam which may have better coverage.",
     employment_type |-> "Guidance",
     currency        |-> "",
     is_remote       |-> FALSE,
     job_id          |-> "guidance",
     source          |-> "system_guidance"]

\* the length of standardized_jobs below which the guidance entry is added
JSearchGuidanceBelow == 3

\* the standardized record JSearchService.search_jobs builds from a provider
\* record (url, posted_date and the salary bounds are left out of the model)
JSearchStandardize(job) ==
    [title           |-> job.job_title,
     company         |-> job.employer_name,
     location        |-> Join(", ", SelectSeq(<<job.job_city, job.job_state,
                                                job.job_country>>,
                                              LAMBDA part : part # "")),
     city            |-> job.job_city,
     state           |-> job.job_state,
     country         |-> job.job_country,
     description     |-> job.job_description,
     employment_type |-> job.job_employment_type,
     currency        |-> job.job_salary_currency,
     is_remote       |-> job.job_is_remote,
     job_id          |-> job.job_id,
     source          |-> "jsearch"]

\* standardized_jobs as search_jobs first builds it: the guidance entry when
\* the location is international and the (still empty) list is short, then
\* the standardized records
JSearchStandardized(js, normalized_location) ==
    (IF JSearchIsInternational(normalized_location) /\ Len(<<>>) < JSearchGuidanceBelow
     THEN <<JSearchGuidance(normalized_location)>> ELSE <<>>)
    \o [i \in 1..Len(js) |-> JSearchStandardize(js[i])]

\* location_keywords of the JSearch location filters: the words of the
\* original and the normalized location, commas and hyphens taken as blanks,
\* without the common words
JSearchLocationKeywords(original_location, normalized_location) ==
    LET Words(loc) == Range(Split(ReplaceChar(ReplaceChar(Lower(loc), ",", " "),
                                              "-", " ")))
    IN  (Words(original_location) \cup Words(normalized_location))
        \ {"in", "the", "at", "of", "and", "or", "a", "an"}

\* the most records _light_filter_jobs_by_location returns when no record
\* has priority
JSearchLightCap == 10

\* a light filter that returns the priority jobs alone
light_filter_jobs_by_location_PriorityOnly(js, original_location, normalized_location) ==
    IF js = <<>> \/ original_location = "" THEN js
    ELSE LET location_keywords ==
                 JSearchLocationKeywords(original_location, normalized_location)
             Priority(job) ==
                 LET job_location_text ==
                         Lower(job.location) \o " " \o Lower(job.city) \o " "
                         \o Lower(job.country)
                 IN  \/ \E kw \in location_keywords : Contains(kw, job_location_text)
                     \/ job.is_remote
                     \/ Contains("remote", job_location_text)
         IN  SelectSeq(js, Priority)

\* JSearchService._light_filter_jobs_by_location
light_filter_jobs_by_location(js, original_location, normalized_location) ==
    IF js = <<>> \/ original_location = "" THEN js
    ELSE LET location_keywords ==
                 JSearchLocationKeywords(original_location, normalized_location)
             Priority(job) ==
                 LET job_location_text ==
                         Lower(job.location) \o " " \o Lower(job.city) \o " "
                         \o Lower(job.country)
                 IN  \/ \E kw \in location_keywords : Contains(kw, job_location_text)
                     \/ job.is_remote
                     \/ Contains("remote", job_location_text)
             Other(job) == ~Priority(job)
             priority_jobs == SelectSeq(js, Priority)
             other_jobs    == SelectSeq(js, Other)
         IN  priority_jobs
             \o Take(other_jobs, Max(0, JSearchLightCap - Len(priority_jobs)))

\* the list length above which search_jobs tries the light location filter
JSearchLightAbove == 5

\* the fewest records the light filter must leave for search_jobs to use its list
JSearchLightFloor == 3

\* the fewest records the experience filter must leave for search_jobs to use
\* its list
JSearchExperienceFloor == 3

\* the light location stage of JSearchService.search_jobs
JSearchLightStage(standardized_jobs, location, normalized_location) ==
    IF location # "" /\ normalized_location # ""
       /\ Len(standardized_jobs) > JSearchLightAbove
    THEN LET filtered_jobs == light_filter_jobs_by_location(standardized_jobs,
                                  location, normalized_location)
         IN  IF Len(filtered_jobs) >= JSearchLightFloor
             THEN filtered_jobs ELSE standardized_jobs
    ELSE standardized_jobs

\* anti_patterns of JSearchService._filter_jobs_by_experience
JSearchAntiPatterns ==
    ("internship" :> {"senior", "lead", "principal", "director", "manager", "experienced"})
    @@ ("entry_level" :> {"senior", "lead", "principal", "director", "sr", "staff"})
    @@ ("mid_level" :> {"intern", "junior", "new grad"})
    @@ ("mid_senior" :> {"intern", "junior", "new grad", "entry"})
    @@ ("senior" :> {"intern", "junior", "new grad", "entry", "associate"})
    @@ ("executive" :> {"intern", "junior", "entry", "associate"})

\* has_positive_match: a keyword of the level occurs in the job's text
HasPositiveMatch(job_text, experience_keywords) ==
    \E i \in 1..Len(experience_keywords) : Contains(Lower(experience_keywords[i]), job_text)

\* has_negative_match: an anti-pattern of the level occurs in the job's text
HasNegativeMatch(job_text, experience_level) ==
    LET level == Lower(experience_level)
    IN  /\ level \in DOMAIN JSearchAntiPatterns
        /\ \E anti_keyword \in JSearchAntiPatterns[level] : Contains(anti_keyword, job_text)

\* the keep test as its comment words it: a positive match and no negative one
ExperienceKeep_Both(job, experience_level, experience_keywords) ==
    LET job_text == Lower(job.title \o " " \o job.description)
    IN  /\ HasPositiveMatch(job_text, experience_keywords)
        /\ ~HasNegativeMatch(job_text, experience_level)

\* whether _filter_jobs_by_experience keeps a job
ExperienceKeep(job, experience_level, experience_keywords) ==
    LET job_text == Lower(job.title \o " " \o job.description)
    IN  \/ HasPositiveMatch(job_text, experience_keywords)
        \/ ~HasNegativeMatch(job_text, experience_level)

\* JSearchService._filter_jobs_by_experience
filter_jobs_by_experience(js, experience_level) ==
    IF js = <<>> \/ experience_level = "" THEN js
    ELSE LET experience_keywords == Split(get_experience_keywords(experience_level))
             Keep(job) == ExperienceKeep(job, experience_level, experience_keywords)
         IN  IF experience_keywords = <<>> THEN js ELSE SelectSeq(js, Keep)

\* the experience stage taking every non-empty filtered list, as the
\* Arbeitnow stage does
JSearchExperienceStage_NonEmpty(standardized_jobs, experience_level, experience_filtered_jobs) ==
    IF experience_level # "" /\ Len(standardized_jobs) > 0
    THEN IF Len(experience_filtered_jobs) > 0
         THEN experience_filtered_jobs ELSE standardized_jobs
    ELSE standardized_jobs

\* the experience stage of JSearchService.search_jobs, given what
\* _filter_jobs_by_experience made of standardized_jobs
JSearchExperienceStage(standardized_jobs, experience_level, experience_filtered_jobs) ==
    IF experience_level # "" /\ Len(standardized_jobs) > 0
    THEN IF Len(experience_filtered_jobs) >= JSearchExperienceFloor
         THEN experience_filtered_jobs ELSE standardized_jobs
    ELSE standardized_jobs

\* `jobs` of search_jobs after the searches: the first answer's records, for
\* an international location passed through the supplementary search
JSearchGathered(normalized_location, response, global_response) ==
    IF JSearchIsInternational(normalized_location)
    THEN JSearchSupplement(response.data, global_response)
    ELSE Returned(response.data)

\* standardized_jobs of search_jobs as the experience stage receives it
JSearchBeforeExperience(js, location, normalized_location) ==
    JSearchLightStage(JSearchStandardized(js, normalized_location),
                      location, normalized_location)

\* the try block of JSearchService.search_jobs: how it ends (`outcome`), and
\* standardized_jobs before the experience stage and experience_filtered_jobs
\* as the block leaves them (empty when it ends before setting them)
JSearchTry(query, location, experience_level, response, global_response) ==
    LET normalized_location == JSearch_normalize_location(location)
        got      == HttpJson(response)
        gathered == JSearchGathered(normalized_location, response, global_response)
        before   == JSearchBeforeExperience(gathered.value, location,
                                            normalized_location)
        filtered == filter_jobs_by_experience(before, experience_level)
        Early(outcome) == [outcome |-> outcome, standardized_jobs |-> <<>>,
                           experience_filtered_jobs |-> <<>>]
    IN  IF got.exc # NoExc THEN Early(got)
        ELSE IF response.kind = "json_null" THEN Early(Raised("AttributeError"))
        ELSE IF response.kind # "ok" THEN Early(Returned(<<>>))
        ELSE IF gathered.exc # NoExc THEN Early(gathered)
        ELSE [outcome |-> Returned(JSearchExperienceStage(before, experience_level,
                                                          filtered)),
              standardized_jobs |-> before,
              experience_filtered_jobs |-> filtered]

\* the queries search_jobs sends: the enhanced query and, when the first
\* answer is in order and the location is international, the global one
JSearchQueries(query, location, experience_level, response) ==
    LET normalized_location == JSearch_normalize_location(location)
    IN  <<[provider |-> "jsearch",
           query |-> JSearchEnhancedQuery(query, normalized_location, experience_level)]>>
        \o (IF response.kind = "ok" /\ JSearchIsInternational(normalized_location)
            THEN <<[provider |-> "jsearch", query |-> JSearchGlobalQuery(query)]>>
            ELSE <<>>)

\* JSearchService.search_jobs
JSearch_search_jobs(query, location, experience_level, response, global_response) ==
    TryExcept(JSearchTry(query, location, experience_level, response,
                         global_response).outcome,
              SearchJobsHandlers)

---------------------------------------------------------------------------
(* services/linkedin_scraper.py and services/scrapingdog_linkedin.py.      *)
(* An HTTPException is named with its status code.                         *)

\* the answer _make_request takes for a 404: no results
LinkedInNoResults == [kind |-> "ok", status |-> 404, data |-> <<>>]

\* LinkedInScraperService._make_request: the parsed answer, or the
\* HTTPException raised for it
LinkedIn_make_request(response) ==
    CASE response.kind = "timeout"  -> Raised("HTTPException504")
      [] response.kind = "refused"  -> Raised("HTTPException503")
      [] response.kind = "http_error" ->
           IF response.status = 401 THEN Raised("HTTPException503")
           ELSE IF response.status = 429 THEN Raised("HTTPException429")
           ELSE IF response.status = 404 THEN Returned(LinkedInNoResults)
           ELSE Raised("HTTPException503")
      [] response.kind = "bad_json" ->
           IF IsInstance("JSONDecodeError", "RequestException")
           THEN Raised("HTTPException503") ELSE Raised("JSONDecodeError")
      [] OTHER -> Returned(response)

\* the LinkedInJobResponse search_jobs builds from a record of the scraper API
LinkedInJobResponse(job_data) ==
    [title |-> job_data.title, company |-> job_data.company,
     location |-> job_data.location, description |-> job_data.description]

\* the try block of LinkedInScraperService.search_jobs
LinkedInTry(response) ==
    LET made == LinkedIn_make_request(response)
    IN  IF made.exc # NoExc THEN made
        ELSE IF made.value.kind = "json_null" THEN Raised("AttributeError")
        ELSE Returned([i \in 1..Len(made.value.data) |->
                          LinkedInJobResponse(made.value.data[i])])

\* `except HTTPException: raise` followed by `except Exception` raising an
\* HTTPException of the given status
ReraiseOrWrap(outcome, status_exc) ==
    IF outcome.exc = NoExc THEN outcome
    ELSE IF IsInstance(outcome.exc, "HTTPException") THEN outcome
    ELSE Raised(status_exc)

\* LinkedInScraperService.search_jobs
LinkedIn_search_jobs(response) == ReraiseOrWrap(LinkedInTry(response), "HTTPException500")

\* the LinkedInJobResponse ScrapingDogLinkedInService.search_jobs builds
ScrapingDogJobResponse(job_data) ==
    [title |-> job_data.job_position, company |-> job_data.company_name,
     location |-> job_data.job_location,
     description |-> "Posted: " \o job_data.job_posting_date \o " | Job ID: "
                     \o job_data.job_id]

\* the try block of ScrapingDog's search_jobs with 429 answered like any
\* other status of 400 and above
ScrapingDogTry_No429(response) ==
    CASE response.kind = "timeout"  -> Raised("Timeout")
      [] response.kind = "refused"  -> Raised("ConnectionError")
      [] response.kind = "http_error" -> Raised("HTTPException503")
      [] response.kind = "bad_json" -> Raised("JSONDecodeError")
      [] response.kind = "ok" ->
           Returned([i \in 1..Len(response.data) |->
                        ScrapingDogJobResponse(response.data[i])])
      [] OTHER -> Returned(<<>>)

\* the try block of ScrapingDogLinkedInService.search_jobs
ScrapingDogTry(response) ==
    CASE response.kind = "timeout"  -> Raised("Timeout")
      [] response.kind = "refused"  -> Raised("ConnectionError")
      [] response.kind = "http_error" ->
           IF response.status = 401 THEN Raised("HTTPException503")
           ELSE IF response.status = 429 THEN Raised("HTTPException429")
           ELSE Raised("HTTPException503")
      [] response.kind = "bad_json" -> Raised("JSONDecodeError")
      [] response.kind = "ok" ->
           Returned([i \in 1..Len(response.data) |->
                        ScrapingDogJobResponse(response.data[i])])
      [] OTHER -> Returned(<<>>)

\* ScrapingDogLinkedInService.search_jobs: its except clauses in order
ScrapingDog_search_jobs(response) ==
    LET outcome == ScrapingDogTry(response)
    IN  IF outcome.exc = NoExc THEN outcome
        ELSE IF IsInstance(outcome.exc, "HTTPException") THEN outcome
        ELSE IF IsInstance(outcome.exc, "Timeout") THEN Raised("HTTPException504")
        ELSE IF IsInstance(outcome.exc, "ConnectionError") THEN Raised("HTTPException503")
        ELSE Raised("HTTPException503")

---------------------------------------------------------------------------
(* routers/services.py: get_job_suggestions.                               *)

\* the branch test with `and not location` left out of the elif
SecondaryBranch_AnyLocation(js, location, limit) ==
    IF Len(js) = 0 /\ location # "" THEN "located"
    ELSE IF Len(js) < limit THEN "remaining"
    ELSE "none"

\* which of the two secondary branches the handler takes after the primary's
\* answer: "located" (if), "remaining" (elif) or "none"
SecondaryBranch(js, location, limit) ==
    IF Len(js) = 0 /\ location # "" THEN "located"
    ELSE IF Len(js) < limit /\ location = "" THEN "remaining"
    ELSE "none"

\* the handler passing its own limit to the secondary on both branches
SecondaryLimit_Full(js, limit, branch) == limit

\* the limit the handler passes to the secondary on a branch
SecondaryLimit(js, limit, branch) ==
    IF branch = "remaining" THEN limit - Len(js) ELSE limit

\* the secondary's jobs put in front of the handler's list
Extend_InFront(js, more) == more \o js

\* jobs.extend(adzuna_jobs)
Extend(js, more) == js \o more

\* limited_jobs = jobs[:limit] if jobs else []
LimitedJobs(js, limit) == IF js # <<>> THEN Take(js, limit) ELSE <<>>

---------------------------------------------------------------------------
(* The provider backends' data and the requests the runs draw from.        *)

ArbeitnowCatalogue ==
    {[slug |-> "job-1", title |-> "Python Developer", company_name |-> "Acme",
      description |-> "django api", tags |-> <<"backend">>, job_types |-> <<>>,
      location |-> "Berlin", city |-> "", country |-> "", remote |-> FALSE,
      relevance_score |-> 0],
     [slug |-> "job-2", title |-> "Senior Software Engineer", company_name |-> "Beta",
      description |-> "lead role", tags |-> <<"Remote">>, job_types |-> <<"full time">>,
      location |-> "Munich", city |-> "", country |-> "", remote |-> TRUE,
      relevance_score |-> 0],
     [slug |-> "job-3", title |-> "Office Manager", company_name |-> "Gamma",
      description |-> "junior", tags |-> <<>>, job_types |-> <<>>,
      location |-> "", city |-> "Berlin", country |-> "Germany", remote |-> FALSE,
      relevance_score |-> 0],
     [slug |-> "job-4", title |-> "Flask Engineer", company_name |-> "Acme",
      description |-> "python senior", tags |-> <<>>, job_types |-> <<>>,
      location |-> "berlin mitte", city |-> "", country |-> "", remote |-> FALSE,
      relevance_score |-> 0]}

AdzunaCatalogue ==
    {[id |-> "job-1", title |-> "Python Developer", company |-> "Acme",
      description |-> "python remote", display_name |-> "Berlin", area |-> <<>>,
      contract_type |-> "permanent"],
     [id |-> "z-2", title |-> "Data Analyst", company |-> "Delta",
      description |-> "sql", display_name |-> "", area |-> <<"US", "Texas">>,
      contract_type |-> ""],
     [id |-> "z-3", title |-> "Software Engineer", company |-> "",
      description |-> "the cloud", display_name |-> "", area |-> <<>>,
      contract_type |-> ""]}

RequestKeywords == {"Software Engineer", "the and of"}
RequestLocations == {"", "Berlin", "Tel Aviv", "remote"}
RequestLevels == {"", "mid_senior"}

ArbeitnowResponses ==
    FailureResponses \cup {OkResponse(d) : d \in InjSeqs(ArbeitnowCatalogue, MaxResp)}

AdzunaResponses ==
    FailureResponses \cup {OkResponse(d) : d \in InjSeqs(AdzunaCatalogue, MaxResp)}

NoRequest == [keywords |-> "", location |-> "", experience_level |-> "", limit |-> 0]
NoProbe == [op |-> "none"]

---------------------------------------------------------------------------
(* One request through get_job_suggestions.                                *)

Init ==
    /\ pc = "idle"
    /\ req = NoRequest
    /\ jobs = <<>>
    /\ result = <<>>
    /\ calls = <<>>
    /\ backend = <<>>
    /\ primaryRaw = <<>>
    /\ probe = NoProbe

\* a request arrives: keywords, optional location and level, limit in 1..MaxLimit
Request(k, l, e, n) ==
    /\ pc = "idle"
    /\ req' = [keywords |-> k, location |-> l, experience_level |-> e, limit |-> n]
    /\ pc' = "primary"
    /\ UNCHANGED <<jobs, result, calls, backend, primaryRaw, probe>>

\* jobs = arbeitnow_service.search_jobs(...), the backend answering `response`
CallPrimary(response) ==
    /\ pc = "primary"
    /\ LET r == Arbeitnow_search_jobs(req.keywords, req.location,
                                      req.experience_level, req.limit, response)
       IN  /\ pc' = IF r.exc = NoExc THEN "decide" ELSE "error"
           /\ jobs' = r.value
           /\ primaryRaw' = IF r.exc = NoExc /\ response.kind = "ok"
                            THEN ArbeitnowKept(req.keywords, req.location,
                                     req.experience_level, req.limit, response.data)
                            ELSE <<>>
           /\ calls' = Append(calls, [provider |-> "arbeitnow", limit |-> req.limit,
                                      answer |-> response, returned |-> r.value])
    /\ backend' = Append(backend, ArbeitnowQuery(req.location))
    /\ UNCHANGED <<req, result, probe>>

\* one of the two branches calls adzuna_jobs_service.search_jobs, the backend
\* answering `response`; the handler extends jobs and returns jobs[:limit]
CallSecondary(response) ==
    /\ pc = "decide"
    /\ SecondaryBranch(jobs, req.location, req.limit) # "none"
    /\ LET branch == SecondaryBranch(jobs, req.location, req.limit)
           lim    == SecondaryLimit(jobs, req.limit, branch)
           r      == Adzuna_search_jobs(req.keywords, req.location,
                                        req.experience_level, lim, response)
       IN  /\ calls' = Append(calls, [provider |-> "adzuna", limit |-> lim,
                                      answer |-> response, returned |-> r.value])
           /\ backend' = backend \o AdzunaQueries(req.keywords, req.location,
                                                  req.experience_level, lim)
           /\ jobs' = Extend(jobs, r.value)
           /\ pc' = IF r.exc = NoExc THEN "done" ELSE "error"
           /\ result' = IF r.exc = NoExc
                        THEN LimitedJobs(Extend(jobs, r.value), req.limit)
                        ELSE <<>>
    /\ UNCHANGED <<req, primaryRaw, probe>>

\* neither branch applies: the handler returns jobs[:limit]
NoSecondary ==
    /\ pc = "decide"
    /\ SecondaryBranch(jobs, req.location, req.limit) = "none"
    /\ result' = LimitedJobs(jobs, req.limit)
    /\ pc' = "done"
    /\ UNCHANGED <<req, jobs, calls, backend, primaryRaw, probe>>

Next ==
    \/ \E k \in RequestKeywords, l \in RequestLocations, e \in RequestLevels,
          n \in 1..MaxLimit : Request(k, l, e, n)
    \/ \E response \in ArbeitnowResponses : CallPrimary(response)
    \/ \E response \in AdzunaResponses : CallSecondary(response)
    \/ NoSecondary

Spec == Init /\ [][Next]_vars

---------------------------------------------------------------------------
(* The service methods called on their own: one call per run, its          *)
(* arguments, the backend answers it consumed and what it gave back kept   *)
(* in `probe`.                                                             *)

\* the records the JSearch backend answers the enhanced query from
JSearchInitialList ==
    <<[job_id |-> "js-1", job_title |-> "Senior Backend Engineer",
       employer_name |-> "Acme", job_description |-> "lead the team",
       job_is_remote |-> FALSE, job_city |-> "Tel Aviv", job_state |-> "",
       job_country |-> "IL", job_employment_type |-> "FULLTIME",
       job_salary_currency |-> "ILS"],
      [job_id |-> "js-2", job_title |-> "Junior Developer",
       employer_name |-> "Beta", job_description |-> "entry role, Remote friendly",
       job_is_remote |-> FALSE, job_city |-> "New York", job_state |-> "NY",
       job_country |-> "US", job_employment_type |-> "", job_salary_currency |-> ""],
      [job_id |-> "js-3", job_title |-> "Data Analyst",
       employer_name |-> "Gamma", job_description |-> "sql reports",
       job_is_remote |-> TRUE, job_city |-> "", job_state |-> "",
       job_country |-> "", job_employment_type |-> "", job_salary_currency |-> ""],
      [job_id |-> "js-4", job_title |-> "Junior QA Intern",
       employer_name |-> "Delta", job_description |-> "testing",
       job_is_remote |-> FALSE, job_city |-> "Austin", job_state |-> "TX",
       job_country |-> "US", job_employment_type |-> "INTERN",
       job_salary_currency |-> "USD"],
      [job_id |-> "js-5", job_title |-> "Staff Engineer",
       employer_name |-> "Acme", job_description |-> "mentors junior engineers",
       job_is_remote |-> FALSE, job_city |-> "Haifa", job_state |-> "",
       job_country |-> "Israel", job_employment_type |-> "FULLTIME",
       job_salary_currency |-> ""]>>

\* the records the JSearch backend answers the global query from: one of the
\* first list again, one with the id of another under a new title, one
\* without any remote or international word
JSearchGlobalList ==
    <<JSearchInitialList[2],
      [JSearchInitialList[3] EXCEPT !.job_title = "Data Analyst (Worldwide)"],
      [job_id |-> "js-6", job_title |-> "Store Clerk",
       employer_name |-> "Epsilon", job_description |-> "on site",
       job_is_remote |-> FALSE, job_city |-> "Denver", job_state |-> "CO",
       job_country |-> "US", job_employment_type |-> "", job_salary_currency |-> ""]>>

JSearchResponses ==
    FailureResponses \cup {OkResponse(d) : d \in SubLists(JSearchInitialList, MaxJSResp)}

JSearchGlobalResponses ==
    FailureResponses \cup {OkResponse(d) : d \in SubLists(JSearchGlobalList, MaxJSResp)}

\* no answer: the supplementary search was not made
NoResponse == [kind |-> "unused", status |-> 0, data |-> <<>>]

FilterKeywords ==
    {"Software Engineer", "the and of", "python js", "", "for  a", "python engineer"}
ServiceLevels == {"", "mid_senior", "senior"}
JSearchLocations == {"", "Tel Aviv", "nyc"}
JSearchLevels == {"", "senior"}
JSearchQueryTexts == {"developer"}

\* a string with its lowercase letters made uppercase
RECURSIVE Upper(_)
Upper(s) ==
    IF s = "" THEN ""
    ELSE LET c == SubSeq(s, 1, 1)
             u == {x \in DOMAIN LowerTable : LowerTable[x] = c}
         IN  (IF u = {} THEN c ELSE CHOOSE x \in u : TRUE)
             \o Upper(SubSeq(s, 2, Len(s)))

\* the locations the normalizers are tried with: nothing, blanks, every key
\* of an alias table as it is, in capitals and with blanks around it, and
\* places outside the tables
NormalizerInputs ==
    LET keys    == DOMAIN JSearchLocationMappings \cup DOMAIN ArbeitnowLocationMappings
        unknown == {"Lisbon", "Sao Paulo", "kyoto", "New  York"}
    IN  {"", "  "} \cup keys \cup unknown
        \cup {Upper(k) : k \in keys}
        \cup {"  " \o Upper(SubSeq(k, 1, 1)) \o SubSeq(k, 2, Len(k)) \o " " : k \in keys}
        \cup {" " \o k \o "  " : k \in unknown}

\* the levels the query composer is tried with: none, and every key of a
\* provider's level table
ComposerLevels ==
    {""} \cup DOMAIN AdzunaLevelTerms \cup DOMAIN JSearchExperienceMappings

\* the candidate lists of the experience filter: short lists of standardized
\* records, and lists of ScenarioLen records of which one names "senior" and
\* every other one "junior"
ScenarioList(p) ==
    [i \in 1..ScenarioLen |->
        JSearchStandardize(
            IF i = p
            THEN [JSearchInitialList[1] EXCEPT !.job_id = "d-" \o ToString(i)]
            ELSE [JSearchInitialList[2] EXCEPT !.job_id = "d-" \o ToString(i)])]

ExperienceCandidates ==
    SeqsUpTo({JSearchStandardize(JSearchInitialList[i]) : i \in {1, 2, 3, 5}},
             MaxFilterLen)
    \cup {ScenarioList(p) : p \in 1..ScenarioLen}

ExperienceLevels == {"", "senior", "Mid_Senior", "entry_level", "guru"}

\* JSearchService._filter_jobs_by_experience called on a job list, and the
\* experience stage of search_jobs run on the same list
CallExperienceFilter(js, experience_level) ==
    /\ pc = "idle" /\ probe = NoProbe
    /\ LET out == filter_jobs_by_experience(js, experience_level)
       IN  probe' = [op |-> "filter_jobs_by_experience", jobs |-> js,
                     experience_level |-> experience_level,
                     out |-> out,
                     stage |-> JSearchExperienceStage(js, experience_level, out)]
    /\ UNCHANGED <<pc, req, jobs, result, calls, backend, primaryRaw>>

\* the records the two LinkedIn scraper backends answer with
LinkedInCatalogue ==
    {[title |-> "Backend Developer", company |-> "Acme", location |-> "Berlin",
      description |-> "apis"],
     [title |-> "Data Engineer", company |-> "Beta", location |-> "Paris",
      description |-> "pipelines"]}

ScrapingDogCatalogue ==
    {[job_position |-> "Backend Developer", company_name |-> "Acme",
      job_location |-> "Berlin", job_posting_date |-> "2024-01-01", job_id |-> "11"],
     [job_position |-> "Data Engineer", company_name |-> "Beta",
      job_location |-> "Paris", job_posting_date |-> "2024-01-02", job_id |-> "12"]}

\* a 404 answer
NotFoundResponse == [kind |-> "http_error", status |-> 404, data |-> <<>>]

LinkedInResponses ==
    FailureResponses \cup {NotFoundResponse}
    \cup {OkResponse(d) : d \in InjSeqs(LinkedInCatalogue, MaxResp)}

ScrapingDogResponses ==
    FailureResponses \cup {NotFoundResponse}
    \cup {OkResponse(d) : d \in InjSeqs(ScrapingDogCatalogue, MaxResp)}

\* LinkedInScraperService.search_jobs called with the backend answering `response`
CallLinkedIn(response) ==
    /\ pc = "idle" /\ probe = NoProbe
    /\ probe' = [op |-> "scraper_search_jobs", provider |-> "linkedin",
                 answers |-> <<response>>, outcome |-> LinkedIn_search_jobs(response)]
    /\ UNCHANGED <<pc, req, jobs, result, calls, backend, primaryRaw>>

\* ScrapingDogLinkedInService.search_jobs called with the backend answering
\* `response`
CallScrapingDog(response) ==
    /\ pc = "idle" /\ probe = NoProbe
    /\ probe' = [op |-> "scraper_search_jobs", provider |-> "scrapingdog",
                 answers |-> <<response>>,
                 outcome |-> ScrapingDog_search_jobs(response)]
    /\ UNCHANGED <<pc, req, jobs, result, calls, backend, primaryRaw>>

\* ArbeitnowService._filter_jobs_by_keywords called on a job list
CallKeywordFilter(js, keywords) ==
    /\ pc = "idle" /\ probe = NoProbe
    /\ probe' = [op |-> "filter_jobs_by_keywords", jobs |-> js, keywords |-> keywords,
                 out |-> filter_jobs_by_keywords(js, keywords)]
    /\ UNCHANGED <<pc, req, jobs, result, calls, backend, primaryRaw>>

\* ArbeitnowService.search_jobs called with the backend answering `response`
CallArbeitnow(query, location, experience_level, limit, response) ==
    /\ pc = "idle" /\ probe = NoProbe
    /\ LET before == ArbeitnowBeforeExperience(query, location, response.data)
       IN  probe' =
             [op |-> "search_jobs", provider |-> "arbeitnow", query |-> query,
              location |-> location, experience_level |-> experience_level,
              limit |-> limit, answers |-> <<response>>,
              outcome |-> Arbeitnow_search_jobs(query, location, experience_level,
                                                limit, response),
              before_experience |-> before,
              after_experience |-> ArbeitnowExperienceStage(before, experience_level)]
    /\ UNCHANGED <<pc, req, jobs, result, calls, backend, primaryRaw>>

\* AdzunaJobsService.search_jobs called with the backend answering `response`
CallAdzuna(query, location, experience_level, limit, response) ==
    /\ pc = "idle" /\ probe = NoProbe
    /\ probe' =
         [op |-> "search_jobs", provider |-> "adzuna", query |-> query,
          location |-> location, experience_level |-> experience_level,
          limit |-> limit,
          queries |-> AdzunaQueries(query, location, experience_level, limit),
          answers |-> IF AdzunaUnsupported(location) THEN <<>> ELSE <<response>>,
          outcome |-> Adzuna_search_jobs(query, location, experience_level,
                                         limit, response)]
    /\ UNCHANGED <<pc, req, jobs, result, calls, backend, primaryRaw>>

\* JSearchService.search_jobs called with the backend answering `response`
\* and, to the supplementary search, `global_response`
CallJSearch(query, location, experience_level, response, global_response) ==
    /\ pc = "idle" /\ probe = NoProbe
    /\ LET try == JSearchTry(query, location, experience_level, response,
                             global_response)
       IN  probe' =
             [op |-> "search_jobs", provider |-> "jsearch", query |-> query,
              location |-> location, experience_level |-> experience_level,
              queries |-> JSearchQueries(query, location, experience_level, response),
              answers |-> <<response, global_response>>,
              outcome |-> TryExcept(try.outcome, SearchJobsHandlers),
              before_experience |-> try.standardized_jobs,
              experience_filtered |-> try.experience_filtered_jobs]
    /\ UNCHANGED <<pc, req, jobs, result, calls, backend, primaryRaw>>

\* a list of n standardized records with ids of their own: every k-th one is
\* in Tel Aviv, the others are in Austin
LightList(n, k) ==
    [i \in 1..n |->
        JSearchStandardize(
            [JSearchInitialList[IF i % k = 0 THEN 1 ELSE 4]
                EXCEPT !.job_id = "l-" \o ToString(i)])]

\* the lists the light location filter is tried with
LightCandidates == {LightList(n, k) : n \in 0..MaxLightLen, k \in {1, 2, 3, MaxLightLen + 1}}

\* JSearchService._light_filter_jobs_by_location called on a list
CallLightFilter(js, location) ==
    /\ pc = "idle" /\ probe = NoProbe
    /\ probe' = [op |-> "light_filter_jobs_by_location", jobs |-> js,
                 location |-> location,
                 out |-> light_filter_jobs_by_location(js, location,
                             JSearch_normalize_location(location))]
    /\ UNCHANGED <<pc, req, jobs, result, calls, backend, primaryRaw>>

\* the records the strict location filter is tried with: the catalogue and a
\* record whose location holds "rome" inside another word
LocationSamples ==
    ArbeitnowCatalogue
    \cup {[slug |-> "job-5", title |-> "Ranch Hand", company_name |-> "Epsilon",
           description |-> "cattle", tags |-> <<>>, job_types |-> <<>>,
           location |-> "Jerome, Idaho", city |-> "", country |-> "", remote |-> FALSE,
           relevance_score |-> 0]}

\* the locations the strict location filter is tried with
FilterLocations == {"", "Berlin", "Rome", "remote", "Tel Aviv", "nyc"}

\* ArbeitnowService._filter_jobs_by_location called on a list
CallLocationFilter(js, location) ==
    /\ pc = "idle" /\ probe = NoProbe
    /\ probe' = [op |-> "filter_jobs_by_location", jobs |-> js, location |-> location,
                 out |-> filter_jobs_by_location(js, location)]
    /\ UNCHANGED <<pc, req, jobs, result, calls, backend, primaryRaw>>

\* _normalize_location of a provider called with `location`
CallNormalize(provider, location) ==
    /\ pc = "idle" /\ probe = NoProbe
    /\ probe' = [op |-> "normalize_location", provider |-> provider,
                 location |-> location,
                 out |-> IF provider = "jsearch"
                         THEN JSearch_normalize_location(location)
                         ELSE Arbeitnow_normalize_location(location)]
    /\ UNCHANGED <<pc, req, jobs, result, calls, backend, primaryRaw>>

\* the enhanced_query JSearchService.search_jobs composes for a request
CallEnhancedQuery(query, location, experience_level) ==
    /\ pc = "idle" /\ probe = NoProbe
    /\ LET normalized_location == JSearch_normalize_location(location)
       IN  probe' = [op |-> "enhanced_query", provider |-> "jsearch", query |-> query,
                     location |-> location, experience_level |-> experience_level,
                     out |-> JSearchEnhancedQuery(query, normalized_location,
                                                  experience_level)]
    /\ UNCHANGED <<pc, req, jobs, result, calls, backend, primaryRaw>>

ServicesNext ==
    \/ \E js \in SeqsUpTo(LocationSamples, MaxLocLen), l \in FilterLocations :
          CallLocationFilter(js, l)
    \/ \E js \in LightCandidates, l \in JSearchLocations : CallLightFilter(js, l)
    \/ \E provider \in {"jsearch", "arbeitnow"}, l \in NormalizerInputs :
          CallNormalize(provider, l)
    \/ \E q \in JSearchQueryTexts, l \in JSearchLocations, e \in ComposerLevels :
          CallEnhancedQuery(q, l, e)
    \/ \E js \in SeqsUpTo(ArbeitnowCatalogue, MaxFilterLen), k \in FilterKeywords :
          CallKeywordFilter(js, k)
    \/ \E js \in ExperienceCandidates, e \in ExperienceLevels :
          CallExperienceFilter(js, e)
    \/ \E response \in LinkedInResponses : CallLinkedIn(response)
    \/ \E response \in ScrapingDogResponses : CallScrapingDog(response)
    \/ \E q \in RequestKeywords, l \in RequestLocations, e \in ServiceLevels,
          n \in 1..MaxLimit, response \in ArbeitnowResponses :
          CallArbeitnow(q, l, e, n, response)
    \/ \E q \in RequestKeywords, l \in RequestLocations, e \in ServiceLevels,
          n \in 1..MaxLimit, response \in AdzunaResponses :
          CallAdzuna(q, l, e, n, response)
    \/ \E q \in JSearchQueryTexts, l \in JSearchLocations, e \in JSearchLevels,
          response \in JSearchResponses :
          \E global_response \in
                 IF Len(JSearchQueries(q, l, e, response)) = 2
                 THEN JSearchGlobalResponses ELSE {NoResponse} :
              CallJSearch(q, l, e, response, global_response)

SpecServices == Init /\ [][ServicesNext]_vars

---------------------------------------------------------------------------
(* Properties of get_job_suggestions.                                      *)

\* whether the secondary's search_jobs was called in this request
SecondaryCalled == \E i \in 1..Len(calls) : calls[i].provider = "adzuna"

\* the list the primary's search_jobs returned (the primary is the first call)
PrimaryReturned == calls[1].returned

\* the identity key of a job: its job id when it has one, else its lowercased,
\* trimmed title and company
IdentityKey(job) ==
    IF job.job_id # "" THEN <<"id", job.job_id>>
    ELSE <<"title+company", Strip(Lower(job.title)), Strip(Lower(job.company))>>

\* C1: for every request (any keywords, optional location, optional level,
\* limit n) and any provider answers, the returned list has at most n jobs.
C1_ResultWithinLimit == pc = "done" => Len(result) <= req.limit

\* C1 witness: both providers were called, the secondary's backend answered
\* with more jobs than it was asked for, and the result is exactly full.
C1_Witness ==
    /\ pc = "done"
    /\ Len(calls) = 2
    /\ Len(calls[2].answer.data) > calls[2].limit
    /\ Len(calls[1].returned) > 0
    /\ Len(result) = req.limit

\* C2: in every returned list no two jobs have equal identity keys; a job both
\* providers return under one job_id appears once.
C2_NoDuplicateKeys ==
    pc = "done" =>
        \A i, j \in 1..Len(result) :
            i < j => IdentityKey(result[i]) # IdentityKey(result[j])

\* C5: within one request the secondary is called if and only if the primary
\* returned zero jobs and a location was supplied, or the primary returned
\* fewer than `limit` jobs and no location was supplied.
C5_SecondaryIff ==
    /\ pc \in {"idle", "primary", "decide"} => ~SecondaryCalled
    /\ pc = "done" =>
          (SecondaryCalled <=>
              \/ Len(PrimaryReturned) = 0 /\ req.location # ""
              \/ Len(PrimaryReturned) < req.limit /\ req.location = "")

\* C5 witness: a request without location whose primary returned some jobs but
\* fewer than the limit, served with the secondary called.
C5_Witness ==
    /\ pc = "done"
    /\ req.location = ""
    /\ Len(PrimaryReturned) > 0
    /\ SecondaryCalled

\* C5 witness of the other side: a located request whose primary returned
\* some jobs but fewer than the limit, served without the secondary.
C5_WitnessNotCalled ==
    /\ pc = "done"
    /\ req.location # ""
    /\ Len(PrimaryReturned) > 0
    /\ Len(PrimaryReturned) < req.limit
    /\ ~SecondaryCalled

\* keyword-match predicate of a provider record: the expanded term set is
\* empty or one of its terms occurs in the record's searchable text
KeywordMatch(job, keywords) ==
    \/ ExpandedTerms(keywords) = {}
    \/ LET searchable_text == SearchableText(job)
       IN  \E t \in ExpandedTerms(keywords) : Contains(t, searchable_text)

\* the records of a backend answer that pass both filters
MatchingJobs(data, keywords, location) ==
    {i \in 1..Len(data) :
        KeywordMatch(data[i], keywords) /\ LocationKeep(data[i], location)}

\* C6: for a request with a location, no level and limit n whose primary data
\* holds m >= 1 jobs passing the keyword and location filters, the result has
\* exactly min(n, m) jobs, each passes both predicates, and the secondary is
\* never called.
C6_ScenarioA ==
    (/\ pc = "done"
     /\ req.location # ""
     /\ req.experience_level = ""
     /\ calls[1].answer.kind = "ok"
     /\ MatchingJobs(calls[1].answer.data, req.keywords, req.location) # {})
    => LET m == Cardinality(MatchingJobs(calls[1].answer.data, req.keywords,
                                         req.location))
       IN  /\ Len(result) = Min(req.limit, m)
           /\ Len(primaryRaw) = Len(result)
           /\ \A i \in 1..Len(result) :
                 /\ result[i] = ArbeitnowStandardize(primaryRaw[i])
                 /\ KeywordMatch(primaryRaw[i], req.keywords)
                 /\ LocationKeep(primaryRaw[i], req.location)
           /\ ~SecondaryCalled

\* C6 away from the remote words: the same statement for the locations that
\* name a place.
C6_ScenarioA_Place == Lower(req.location) \notin RemoteWords => C6_ScenarioA

---------------------------------------------------------------------------
(* Properties of the filters and of the providers' search_jobs.            *)

\* a record with its relevance score put back to the one it came with
Unscored(job) == [job EXCEPT !.relevance_score = 0]

\* how often a record occurs in a list, scores apart
Occurrences(job, js) == Cardinality({i \in 1..Len(js) : Unscored(js[i]) = Unscored(job)})

\* C3: for every job list and keyword string the keyword filter returns a list
\* no longer than its input, and when the expanded term set is non-empty every
\* returned job is one of the input jobs, none added and none more often than
\* the input has it.
C3_KeywordFilterSubset ==
    probe.op = "filter_jobs_by_keywords" =>
        /\ Len(probe.out) <= Len(probe.jobs)
        /\ ExpandedTerms(probe.keywords) # {} =>
              \A i \in 1..Len(probe.out) :
                  /\ Occurrences(probe.out[i], probe.jobs) > 0
                  /\ Occurrences(probe.out[i], probe.out)
                         <= Occurrences(probe.out[i], probe.jobs)

\* C3 witness: a filter call with a non-empty term set that kept some of its
\* jobs, one of them matching several terms, and dropped others.
C3_Witness ==
    /\ probe.op = "filter_jobs_by_keywords"
    /\ ExpandedTerms(probe.keywords) # {}
    /\ Len(probe.out) > 0
    /\ Len(probe.out) < Len(probe.jobs)
    /\ \E i \in 1..Len(probe.out) : probe.out[i].relevance_score > 1

\* the jobs of a list that hold a keyword of the Arbeitnow level table
LevelKeywordJobs(js, experience_level) ==
    IF experience_level \in DOMAIN ArbeitnowLevelKeywords
    THEN ArbeitnowExperienceFiltered(js, experience_level)
    ELSE js

\* C4: in every provider pipeline that applies the experience filter, whenever
\* filtering would leave fewer than 3 jobs the unfiltered input is used
\* unchanged; a filtered list of 1 or 2 jobs never replaces a longer input.
C4_FloorOfThree ==
    /\ (probe.op = "search_jobs" /\ probe.provider = "jsearch") =>
          /\ Len(probe.experience_filtered) < 3
                 => probe.outcome.value = probe.before_experience
          /\ ~(/\ Len(probe.outcome.value) \in {1, 2}
               /\ Len(probe.outcome.value) < Len(probe.before_experience))
    /\ (probe.op = "search_jobs" /\ probe.provider = "arbeitnow") =>
          /\ Len(LevelKeywordJobs(probe.before_experience, probe.experience_level)) < 3
                 => probe.after_experience = probe.before_experience
          /\ ~(/\ Len(probe.after_experience) \in {1, 2}
               /\ Len(probe.after_experience) < Len(probe.before_experience))

\* C4 amended: in the JSearch pipeline filtering that would leave fewer than 3
\* jobs leaves the input unchanged and search_jobs returns it, so that a list
\* of 1 or 2 jobs never replaces a longer input; in the Arbeitnow pipeline the
\* filter is skipped only when it would leave no job at all, and any non-empty
\* filtered list replaces the input.
C4_FloorPerPipeline ==
    /\ (probe.op = "search_jobs" /\ probe.provider = "jsearch") =>
          /\ Len(probe.experience_filtered) < 3
                 => probe.outcome.value = probe.before_experience
          /\ ~(/\ Len(probe.outcome.value) \in {1, 2}
               /\ Len(probe.outcome.value) < Len(probe.before_experience))
    /\ (probe.op = "search_jobs" /\ probe.provider = "arbeitnow") =>
          LET filtered == LevelKeywordJobs(probe.before_experience,
                                           probe.experience_level)
          IN  probe.after_experience =
                  IF filtered # <<>> /\ probe.experience_level # ""
                  THEN filtered ELSE probe.before_experience

\* C4 witness: a JSearch run with a level whose filter kept 1 or 2 of at least
\* 3 jobs, and search_jobs returned all of them.
C4_Witness ==
    /\ probe.op = "search_jobs" /\ probe.provider = "jsearch"
    /\ probe.experience_level # ""
    /\ Len(probe.before_experience) >= 3
    /\ Len(probe.experience_filtered) \in {1, 2}
    /\ probe.outcome.value = probe.before_experience

\* C8: when every token of the keyword string is a stopword (the expanded
\* term set is empty) the keyword filter drops no job and returns the jobs in
\* exactly the order it received them.
C8_StopwordsKeepOrder ==
    (/\ probe.op = "filter_jobs_by_keywords"
     /\ Range(Split(Lower(probe.keywords))) \subseteq Stopwords)
    => /\ ExpandedTerms(probe.keywords) = {}
       /\ Len(probe.out) = Len(probe.jobs)
       /\ \A i \in 1..Len(probe.jobs) : Unscored(probe.out[i]) = Unscored(probe.jobs[i])

\* C8 witness: a filter call with a keyword string of stopwords only on a list
\* of different jobs.
C8_Witness ==
    /\ probe.op = "filter_jobs_by_keywords"
    /\ Split(Lower(probe.keywords)) # <<>>
    /\ Range(Split(Lower(probe.keywords))) \subseteq Stopwords
    /\ Len(probe.jobs) >= 2
    /\ probe.jobs[1] # probe.jobs[2]
    /\ probe.out = probe.jobs

\* the text the experience classifier reads of a job
ClassifierText(job) == Lower(job.title \o " " \o job.description)

\* a positive keyword of the level occurs in the text
PositiveIn(text, experience_level) ==
    \E kw \in Range(Split(Lower(get_experience_keywords(experience_level)))) :
        Contains(kw, text)

\* an anti-pattern keyword of the level occurs in the text
AntiPatternIn(text, experience_level) ==
    /\ Lower(experience_level) \in DOMAIN JSearchAntiPatterns
    /\ \E kw \in JSearchAntiPatterns[Lower(experience_level)] : Contains(kw, text)

\* the candidates of Scenario D: level senior, one job naming "senior", every
\* other job naming "junior" and no keyword of the level
ScenarioD ==
    /\ probe.op = "filter_jobs_by_experience"
    /\ probe.experience_level = "senior"
    /\ Len(probe.jobs) = ScenarioLen
    /\ Cardinality({i \in 1..Len(probe.jobs) :
                       Contains("senior", ClassifierText(probe.jobs[i]))}) = 1
    /\ \A i \in 1..Len(probe.jobs) :
          \/ Contains("senior", ClassifierText(probe.jobs[i]))
          \/ /\ Contains("junior", ClassifierText(probe.jobs[i]))
             /\ ~PositiveIn(ClassifierText(probe.jobs[i]), "senior")

FailureKinds == {"timeout", "refused", "http_error", "bad_json", "json_null"}

\* the backend answers a search_jobs call consumed
Consumed ==
    IF probe.provider = "jsearch"
    THEN SubSeq(probe.answers, 1, Len(probe.queries))
    ELSE probe.answers

\* C10: search_jobs of each adapter never raises: a transport error, non-2xx
\* status, malformed JSON or internal exception at any step yields an empty
\* list as the return value.
C10_FailureYieldsEmpty ==
    probe.op = "search_jobs" =>
        /\ probe.outcome.exc = NoExc
        /\ (\E i \in 1..Len(Consumed) : Consumed[i].kind \in FailureKinds)
               => probe.outcome.value = <<>>

\* C10 amended: search_jobs of each adapter never raises; a failure of the
\* first (or only) request yields the empty list; in JSearch's supplementary
\* request a transport error, malformed JSON or internal exception yields the
\* empty list too, while a non-200 status is passed over and the call returns
\* a non-empty list made of the guidance entry and records of the first answer.
C10_NeverRaises ==
    probe.op = "search_jobs" =>
        /\ probe.outcome.exc = NoExc
        /\ (Len(Consumed) >= 1 /\ Consumed[1].kind \in FailureKinds)
               => probe.outcome.value = <<>>
        /\ (Len(Consumed) = 2 /\ Consumed[2].kind \in FailureKinds \ {"http_error"})
               => probe.outcome.value = <<>>
        /\ (Len(Consumed) = 2 /\ Consumed[2].kind = "http_error")
               => /\ probe.outcome.value # <<>>
                  /\ \A i \in 1..Len(probe.outcome.value) :
                        \/ probe.outcome.value[i].source = "system_guidance"
                        \/ \E j \in 1..Len(Consumed[1].data) :
                              probe.outcome.value[i]
                                  = JSearchStandardize(Consumed[1].data[j])

\* C10 witness: a JSearch call whose first answer held jobs and whose
\* supplementary answer made the code raise on its own; the call returned the
\* empty list.
C10_Witness ==
    /\ probe.op = "search_jobs" /\ probe.provider = "jsearch"
    /\ Len(probe.queries) = 2
    /\ probe.answers[1].data # <<>>
    /\ probe.answers[2].kind = "json_null"
    /\ probe.outcome = Returned(<<>>)

---------------------------------------------------------------------------
(* Properties for the later claims.                                        *)

\* a consumed backend answer with status 401 or 429
AuthOrRateLimit(answer) == answer.kind = "http_error" /\ answer.status \in {401, 429}

\* the answers a recorded call consumed, for every provider
AnswersOf ==
    IF probe.op = "search_jobs" THEN Consumed
    ELSE IF probe.op = "scraper_search_jobs" THEN probe.answers
    ELSE <<>>

\* C11: for every provider integration a 401 or 429 answer has the effect of
\* "no results": search_jobs returns an empty list and surfaces no error.
C11_AuthRateLimitIsEmpty ==
    (\E i \in 1..Len(AnswersOf) : AuthOrRateLimit(AnswersOf[i]))
    => probe.outcome = Returned(<<>>)

\* C11 amended: in Arbeitnow, Adzuna and JSearch a 401 or 429 answer to the
\* first (or only) request makes search_jobs return an empty list and one to
\* JSearch's supplementary request is passed over without an error; the two
\* LinkedIn scraper services surface it: search_jobs raises an HTTPException
\* with status 503 for a 401 and with status 429 for a 429.
C11_AuthRateLimitPerProvider ==
    /\ probe.op = "search_jobs" =>
          /\ (Len(Consumed) >= 1 /\ AuthOrRateLimit(Consumed[1]))
                 => probe.outcome = Returned(<<>>)
          /\ (Len(Consumed) = 2 /\ AuthOrRateLimit(Consumed[2]))
                 => probe.outcome.exc = NoExc
    /\ probe.op = "scraper_search_jobs" =>
          /\ (probe.answers[1].kind = "http_error" /\ probe.answers[1].status = 401)
                 => probe.outcome = Raised("HTTPException503")
          /\ (probe.answers[1].kind = "http_error" /\ probe.answers[1].status = 429)
                 => probe.outcome = Raised("HTTPException429")

\* C11 witness: the ScrapingDog service answered a 429 with an HTTPException.
C11_Witness ==
    /\ probe.op = "scraper_search_jobs" /\ probe.provider = "scrapingdog"
    /\ probe.answers[1].status = 429
    /\ probe.outcome.exc # NoExc


\* C12: the handler never ends in an error because of what a provider did, and
\* when every provider call of the request failed or returned nothing the
\* handler's outcome is the empty list
C12_NeverErrors ==
    /\ pc # "error"
    /\ (pc = "done" /\ \A i \in 1..Len(calls) : calls[i].returned = <<>>)
           => result = <<>>

\* a finished request whose two provider calls both met a failing backend
C12_Witness ==
    /\ pc = "done"
    /\ Len(calls) = 2
    /\ \A i \in 1..2 : calls[i].answer.kind \in FailureKinds
    /\ calls[1].answer.kind # calls[2].answer.kind
    /\ result = <<>>

\* the text the keyword test of a result entry reads: the provider record
\* behind a primary entry, title and description of a secondary entry
ResultText(i) ==
    IF i <= Len(primaryRaw) THEN SearchableText(primaryRaw[i])
    ELSE Lower(result[i].title \o " " \o result[i].description)

\* C13 as stated: with a non-empty expanded term set, every job of the final
\* result, from the primary or the secondary, holds at least one expanded term
C13_ResultMatchesKeywords ==
    (pc = "done" /\ ExpandedTerms(req.keywords) # {})
        => \A i \in 1..Len(result) :
               LET text == ResultText(i)
               IN  \E t \in ExpandedTerms(req.keywords) : Contains(t, text)


\* the records of a list with their relevance scores put back
UnscoredAll(js) == [i \in 1..Len(js) |-> Unscored(js[i])]

\* C14: the keyword filter's output is ordered by non-increasing relevance
\* score, the score of a job being the number of distinct expanded terms in
\* its lowercased title, description, tags and job types, and jobs of equal
\* score keep the order they had in the input
C14_SortedByScore ==
    probe.op = "filter_jobs_by_keywords" =>
        LET terms      == ExpandedTerms(probe.keywords)
            Score(job) == KeywordMatches(job, terms)
        IN  /\ \A i, j \in 1..Len(probe.out) :
                  i < j => Score(probe.out[i]) >= Score(probe.out[j])
            /\ \A i \in 1..Len(probe.out) :
                  probe.keywords # "" => probe.out[i].relevance_score = Score(probe.out[i])
            /\ \A v \in 0..Cardinality(terms) :
                  LET HasScore(job) == Score(job) = v
                      kept          == SelectSeq(probe.out, HasScore)
                  IN  \/ UnscoredAll(kept)
                             = UnscoredAll(SelectSeq(probe.jobs, HasScore))
                      \/ v = 0 /\ kept = <<>>

\* a filter call that moved a job of score 2 in front of two different jobs
\* of score 1, which kept their order
C14_Witness ==
    /\ probe.op = "filter_jobs_by_keywords"
    /\ Len(probe.out) = 3
    /\ probe.out[1].relevance_score = 2
    /\ probe.out[2].relevance_score = 1
    /\ probe.out[3].relevance_score = 1
    /\ probe.out[2] # probe.out[3]
    /\ UnscoredAll(probe.out) = <<probe.jobs[3], probe.jobs[1], probe.jobs[2]>>


\* C15: when no location was supplied and the primary returned k < limit
\* jobs, the secondary is called with the limit limit - k, which is at least
\* 1, and contributes at most limit - k jobs to the merged list
C15_RemainingLimit ==
    (pc = "done" /\ req.location = "" /\ Len(PrimaryReturned) < req.limit)
    => /\ Len(calls) = 2
       /\ calls[2].provider = "adzuna"
       /\ calls[2].limit = req.limit - Len(PrimaryReturned)
       /\ calls[2].limit >= 1
       /\ Len(calls[2].returned) <= req.limit - Len(PrimaryReturned)
       /\ Len(jobs) - Len(PrimaryReturned) <= req.limit - Len(PrimaryReturned)
       /\ \A i \in 1..Len(backend) :
             backend[i].provider = "adzuna"
                 => backend[i].results_per_page = req.limit - Len(PrimaryReturned)

\* a request without location whose primary returned one job of two and whose
\* secondary backend answered with more jobs than the one asked for
C15_Witness ==
    /\ pc = "done"
    /\ req.location = ""
    /\ req.limit = 2
    /\ Len(PrimaryReturned) = 1
    /\ Len(calls) = 2
    /\ Len(calls[2].answer.data) = 2
    /\ Len(calls[2].returned) = 1

\* the list the secondary's search_jobs returned, empty when it was not called
SecondaryReturned == IF SecondaryCalled THEN calls[2].returned ELSE <<>>

\* C16: the merged list is the primary's jobs followed by the secondary's
\* jobs, each batch in the order its provider returned it, and the final
\* result is a prefix of the merged list
C16_MergeInCallOrder ==
    /\ pc \in {"decide", "done"} =>
          jobs = PrimaryReturned \o SecondaryReturned
    /\ pc = "done" =>
          /\ Len(result) <= Len(jobs)
          /\ result = SubSeq(jobs, 1, Len(result))

\* a result of two different jobs, the first from the primary and the second
\* from the secondary
C16_Witness ==
    /\ pc = "done"
    /\ Len(PrimaryReturned) = 1
    /\ Len(SecondaryReturned) = 1
    /\ PrimaryReturned[1].job_id # SecondaryReturned[1].job_id
    /\ result = <<PrimaryReturned[1], SecondaryReturned[1]>>

\* the calls of a provider's search_jobs within the request
CallsOf(provider) == {i \in 1..Len(calls) : calls[i].provider = provider}

\* the queries sent to a provider's backend within the request
QueriesTo(provider) == {i \in 1..Len(backend) : backend[i].provider = provider}

\* C17: within one request the primary is called exactly once and the
\* secondary at most once, also when a call fails or returns nothing; neither
\* call is repeated and neither sends its backend a query twice
C17_NoRetry ==
    /\ Cardinality(CallsOf("arbeitnow")) = IF pc \in {"idle", "primary"} THEN 0 ELSE 1
    /\ Cardinality(CallsOf("adzuna")) <= 1
    /\ Cardinality(QueriesTo("arbeitnow")) = Cardinality(CallsOf("arbeitnow"))
    /\ Cardinality(QueriesTo("adzuna")) <= Cardinality(CallsOf("adzuna"))

\* a finished request whose primary backend timed out and whose secondary
\* backend answered with no jobs
C17_Witness ==
    /\ pc = "done"
    /\ calls[1].answer.kind = "timeout"
    /\ Len(calls) = 2
    /\ calls[2].answer.kind = "ok"
    /\ calls[2].answer.data = <<>>
    /\ Cardinality(QueriesTo("adzuna")) = 1


\* a returned job carries a remote or international signal: its remote flag,
\* or an indicator word in its lowercased title or description
CarriesSignal(job) ==
    \/ job.is_remote
    \/ LET title == Lower(job.title)
           desc  == Lower(job.description)
       IN  \E indicator \in InternationalIndicators :
               Contains(indicator, title) \/ Contains(indicator, desc)

\* the returned jobs of a JSearch call that are no record of its first answer
\* and not the guidance entry: the jobs taken from the supplementary batch
FromBroadened ==
    {i \in 1..Len(probe.outcome.value) :
        /\ probe.outcome.value[i].source # "system_guidance"
        /\ \A j \in 1..Len(probe.answers[1].data) :
              probe.outcome.value[i] # JSearchStandardize(probe.answers[1].data[j])}

\* C18: on the supplementary path of JSearch every job taken from the
\* broadened batch carries a remote or international signal (remote flag, or
\* an indicator word in its title or description)
C18_BroadenedCarrySignal ==
    (probe.op = "search_jobs" /\ probe.provider = "jsearch")
    => \A i \in FromBroadened :
           /\ Len(probe.queries) = 2
           /\ \E j \in 1..Len(probe.answers[2].data) :
                 probe.outcome.value[i] = JSearchStandardize(probe.answers[2].data[j])
           /\ CarriesSignal(probe.outcome.value[i])

\* a JSearch call whose supplementary answer held a record with a signal and
\* one without: the first was returned, the second was not
C18_Witness ==
    /\ probe.op = "search_jobs" /\ probe.provider = "jsearch"
    /\ Len(probe.queries) = 2
    /\ probe.answers[2].kind = "ok"
    /\ FromBroadened # {}
    /\ \E j \in 1..Len(probe.answers[2].data) :
          /\ ~CarriesSignal(JSearchStandardize(probe.answers[2].data[j]))
          /\ \A i \in 1..Len(probe.outcome.value) :
                probe.outcome.value[i] # JSearchStandardize(probe.answers[2].data[j])


\* the location of a JSearch call is under-covered: given, and outside the
\* English-speaking regions
UnderCovered ==
    LET normalized_location == JSearch_normalize_location(probe.location)
    IN  /\ normalized_location # ""
        /\ ~should_add_experience_to_query(normalized_location)

\* C19: the broadened query is issued only when the location is under-covered
\* and the first answer held fewer jobs than the small floor; in every other
\* case no broadened query is issued
C19_BroadenedOnlyBelowFloor ==
    (probe.op = "search_jobs" /\ probe.provider = "jsearch")
    => /\ Len(probe.queries) <= 2
       /\ Len(probe.queries) = 2
              => /\ UnderCovered
                 /\ Len(probe.answers[1].data) < JSearchLimitedBelow


\* the experience-level phrase a provider has for the level of the call, ""
\* when it has none
LevelPhrase ==
    IF probe.experience_level = "" THEN ""
    ELSE IF probe.provider = "jsearch" THEN get_experience_keywords(probe.experience_level)
    ELSE IF probe.experience_level \in DOMAIN AdzunaLevelTerms
    THEN AdzunaLevelTerms[probe.experience_level]
    ELSE ""

\* the query string of a query a provider sent
QueryText(q) == IF q.provider = "jsearch" THEN q.query ELSE q.what

\* C20: for an under-covered location no query string composed for any
\* provider contains the experience-level phrase, while the location is still
\* conveyed; the phrase is appended only for well-covered or absent locations
C20_NoLevelPhraseUnderCovered ==
    (/\ probe.op = "search_jobs" /\ probe.provider \in {"jsearch", "adzuna"}
     /\ LevelPhrase # ""
     /\ UnderCovered)
    => \A i \in 1..Len(probe.queries) :
           ~Contains(LevelPhrase, QueryText(probe.queries[i]))

\* C20 amended: JSearch composes its first query of the query text, the
\* normalized location when one is given, and the level's phrase only when
\* the location is well-covered or absent, so that for an under-covered
\* location none of its queries contains the phrase while the first one
\* conveys the location; Adzuna appends its level terms to the query text for
\* every location it serves and conveys the location in a parameter of its own
C20_LevelPhrasePerProvider ==
    /\ (probe.op = "search_jobs" /\ probe.provider = "jsearch") =>
          LET normalized_location == JSearch_normalize_location(probe.location)
          IN  /\ probe.queries[1].query =
                     probe.query
                     \o (IF normalized_location # ""
                         THEN " " \o normalized_location ELSE "")
                     \o (IF LevelPhrase # "" /\ ~UnderCovered
                         THEN " " \o LevelPhrase ELSE "")
              /\ (UnderCovered /\ LevelPhrase # "") =>
                    \A i \in 1..Len(probe.queries) :
                        ~Contains(LevelPhrase, probe.queries[i].query)
    /\ (probe.op = "search_jobs" /\ probe.provider = "adzuna") =>
          \A i \in 1..Len(probe.queries) :
              /\ probe.queries[i].what =
                     probe.query
                     \o (IF LevelPhrase # "" THEN " " \o LevelPhrase ELSE "")
              /\ probe.queries[i].where = probe.location

\* a JSearch call with a level for an under-covered location: its first query
\* names the location and not the level, and a supplementary query followed
C20_Witness ==
    /\ probe.op = "search_jobs" /\ probe.provider = "jsearch"
    /\ UnderCovered
    /\ LevelPhrase # ""
    /\ Len(probe.queries) = 2
    /\ Contains(JSearch_normalize_location(probe.location), probe.queries[1].query)
    /\ ~Contains(LevelPhrase, probe.queries[1].query)


\* the six experience levels of a request, as the providers' tables name them
SixLevels ==
    {"internship", "entry_level", "associate", "mid_senior", "director", "executive"}

\* C21: for a well-covered location each of the six experience levels makes
\* the query composer append a non-empty phrase, and the phrases of different
\* levels differ
C21_SixLevelPhrases ==
    (/\ probe.op = "enhanced_query"
     /\ probe.location # "" /\ ~UnderCovered
     /\ probe.experience_level \in SixLevels)
    => LET phrase == get_experience_keywords(probe.experience_level)
       IN  /\ phrase # ""
           /\ probe.out = probe.query \o " "
                          \o JSearch_normalize_location(probe.location)
                          \o " " \o phrase
           /\ \A other \in SixLevels \ {probe.experience_level} :
                 get_experience_keywords(other) # phrase


\* the alias table of the provider whose normalizer was called
AliasTable ==
    IF probe.provider = "jsearch" THEN JSearchLocationMappings
    ELSE ArbeitnowLocationMappings

\* C22: the location normalizer maps every alias-table key, in any letter
\* case and with blanks around it, to its canonical value, and returns any
\* other string with only the surrounding blanks removed, its characters and
\* letter case unchanged; empty input gives empty output
C22_NormalizerKeepsCase ==
    probe.op = "normalize_location" =>
        LET key == Lower(Strip(probe.location))
        IN  /\ probe.location = "" => probe.out = ""
            /\ key \in DOMAIN AliasTable => probe.out = AliasTable[key]
            /\ key \notin DOMAIN AliasTable => probe.out = Strip(probe.location)

\* C22 amended: each normalizer maps every key of its alias table, in any
\* letter case and with blanks around it, to its canonical value, and gives
\* empty output for empty input; any other string JSearch's normalizer returns
\* with only the surrounding blanks removed, while Arbeitnow's normalizer
\* returns it with the surrounding blanks removed and every letter lowercased
C22_NormalizerPerProvider ==
    probe.op = "normalize_location" =>
        LET key == Lower(Strip(probe.location))
        IN  /\ probe.location = "" => probe.out = ""
            /\ key \in DOMAIN AliasTable => probe.out = AliasTable[key]
            /\ key \notin DOMAIN AliasTable =>
                  probe.out = IF probe.provider = "jsearch"
                              THEN Strip(probe.location) ELSE key

\* Arbeitnow's normalizer called with a capitalized alias key between blanks
C22_Witness ==
    /\ probe.op = "normalize_location" /\ probe.provider = "arbeitnow"
    /\ probe.location = "  Nyc "
    /\ probe.out = "new york"

\* Arbeitnow's normalizer called with a place outside its table
C22_WitnessUnknown ==
    /\ probe.op = "normalize_location" /\ probe.provider = "arbeitnow"
    /\ probe.location = " Sao Paulo  "
    /\ probe.out = "sao paulo"


\* the positions of a list whose job names a word of the requested location
\* in its location, city or country, or is remote
PriorityIn(js) ==
    LET normalized_location == JSearch_normalize_location(probe.location)
        keywords == JSearchLocationKeywords(probe.location, normalized_location)
    IN  {i \in 1..Len(js) :
            LET text == Lower(js[i].location \o " " \o js[i].city \o " " \o js[i].country)
            IN  \/ \E kw \in keywords : Contains(kw, text)
                \/ js[i].is_remote
                \/ Contains("remote", text)}

\* C23: the light location filter never discards a job: its output holds
\* every job of the input exactly once, whatever the number of matches
C23_LightIsPermutation ==
    probe.op = "light_filter_jobs_by_location" =>
        /\ Len(probe.out) = Len(probe.jobs)
        /\ \A i \in 1..Len(probe.jobs) :
              Cardinality({j \in 1..Len(probe.out) : probe.out[j] = probe.jobs[i]}) = 1

\* C23 amended: the light location filter never discards a matching job: its
\* output is the matching jobs in input order followed by the first non-
\* matching jobs in input order, as many as bring the length up to 10 and none
\* when there are 10 or more matches; it is a permutation of the input for
\* every list of at most 10 jobs and whenever no location is given
C23_LightKeepsPriority ==
    (probe.op = "light_filter_jobs_by_location" /\ probe.location # "") =>
        LET matching == AtPositions(probe.jobs, PriorityIn(probe.jobs), 1)
            others   == AtPositions(probe.jobs,
                                    (1..Len(probe.jobs)) \ PriorityIn(probe.jobs), 1)
            room     == Max(0, JSearchLightCap - Len(matching))
        IN  /\ probe.out = matching \o SubSeq(others, 1, Min(room, Len(others)))
            /\ Len(probe.jobs) <= JSearchLightCap => Len(probe.out) = Len(probe.jobs)

\* the light filter called on 11 jobs of which 5 match: the 6th of the other
\* jobs is not returned
C23_Witness ==
    /\ probe.op = "light_filter_jobs_by_location"
    /\ probe.location = "Tel Aviv"
    /\ Len(probe.jobs) = 11
    /\ Cardinality(PriorityIn(probe.jobs)) = 5
    /\ Len(probe.out) = 10
    /\ \A j \in 1..Len(probe.out) : probe.out[j] # probe.jobs[11]


\* the keywords of the requested location: the words of its normalized form
\* that are longer than 2
LongKeywords == {kw \in Range(Split(Arbeitnow_normalize_location(probe.location))) : Len(kw) > 2}

\* a keyword is a whole word of the record's location, city or country
WholeWordMatch(job) ==
    \E kw \in LongKeywords :
        \/ kw \in Range(Split(Lower(job.location)))
        \/ kw \in Range(Split(Lower(job.city)))
        \/ kw \in Range(Split(Lower(job.country)))

\* a keyword occurs inside the record's location or city text
PartialMatch(job) ==
    \E kw \in LongKeywords :
        Contains(kw, Lower(job.location)) \/ Contains(kw, Lower(job.city))

\* C24: the strict location filter returns a subsequence of its input in
\* which every job matches by a whole word of its location, city or country
\* or by a term of the city-to-country expansion in its location text; a job
\* matching in neither way is never kept
C24_StrictWholeWord ==
    (probe.op = "filter_jobs_by_location" /\ probe.location # "") =>
        /\ \E K \in SUBSET (1..Len(probe.jobs)) :
              probe.out = AtPositions(probe.jobs, K, 1)
        /\ \A i \in 1..Len(probe.out) :
              \/ WholeWordMatch(probe.out[i])
              \/ LocationTableMatch(probe.out[i], Lower(probe.location))

\* C24 amended: the strict location filter returns, in input order, exactly
\* the jobs that match; for the locations remote, anywhere and global a job
\* matches when it is a remote job; for any other location it matches when a
\* keyword of the normalized location longer than 2 is a whole word of its
\* location, city or country field or occurs anywhere inside its location or
\* city text, or when its location text contains a term of the city-to-
\* country expansion of the requested location
C24_StrictOrPartial ==
    (probe.op = "filter_jobs_by_location" /\ probe.location # "") =>
        LET Match(job) ==
                IF Lower(probe.location) \in RemoteWords THEN IsRemoteJob(job)
                ELSE \/ WholeWordMatch(job)
                     \/ PartialMatch(job)
                     \/ LocationTableMatch(job, Lower(probe.location))
        IN  probe.out = SelectSeq(probe.jobs, Match)

\* the strict filter asked for Rome kept a job in "Jerome, Idaho" and dropped
\* another job
C24_Witness ==
    /\ probe.op = "filter_jobs_by_location"
    /\ probe.location = "Rome"
    /\ Len(probe.jobs) = 2
    /\ Len(probe.out) = 1
    /\ probe.out[1].location = "Jerome, Idaho"
    /\ ~WholeWordMatch(probe.out[1])


\* C25: when the request's location is "remote", "anywhere" or "global",
\* every job the primary's search_jobs returns is a remote job (remote flag,
\* "remote" in its location text, or a remote or home-office tag), whatever
\* list the backend answered with
C25_RemoteRequestRemoteJobs ==
    (pc \in {"decide", "done"} /\ Lower(req.location) \in RemoteWords)
    => \A i \in 1..Len(PrimaryReturned) :
           \/ IsRemoteJob(primaryRaw[i])
           \/ PrimaryReturned[i].is_remote
           \/ Contains("remote", Lower(PrimaryReturned[i].location))


\* what a provider record supplies of the three fields, "" where it lacks one
Supplied(provider, record) ==
    IF provider = "arbeitnow"
    THEN [id |-> record.slug, location |-> record.location,
          employment_type |-> Join(" ", record.job_types), currency |-> ""]
    ELSE [id |-> record.id,
          location |-> IF record.display_name # "" THEN record.display_name
                       ELSE Join(" ", record.area),
          employment_type |-> record.contract_type, currency |-> ""]

\* C26: when a provider record lacks a field (location, employment type,
\* salary currency) the adapter leaves the field of the returned job at its
\* zero value and never fills in a value the provider did not supply
C26_NoFabricatedFields ==
    (/\ probe.op = "search_jobs" /\ probe.provider \in {"arbeitnow", "adzuna"}
     /\ Len(probe.answers) = 1)
    => \A i \in 1..Len(probe.outcome.value) :
           \A j \in 1..Len(probe.answers[1].data) :
               LET job == probe.outcome.value[i]
                   got == Supplied(probe.provider, probe.answers[1].data[j])
               IN  job.job_id = got.id
                   => /\ got.location = "" => job.location = ""
                      /\ got.employment_type = "" => job.employment_type = ""
                      /\ got.currency = "" => job.currency = ""


\* C27: partial results survive a later failure: when the first JSearch query
\* returned jobs and the broadened query fails by a timeout, a connection
\* error or an unparseable body, search_jobs still returns jobs gathered by
\* the first query and not an empty list
C27_PartialResultsSurvive ==
    (/\ probe.op = "search_jobs" /\ probe.provider = "jsearch"
     /\ Len(probe.queries) = 2
     /\ probe.answers[1].data # <<>>
     /\ probe.answers[2].kind \in {"timeout", "refused", "bad_json"})
    => /\ probe.outcome.exc = NoExc
       /\ \E i \in 1..Len(probe.outcome.value) :
             \E j \in 1..Len(probe.answers[1].data) :
                 probe.outcome.value[i] = JSearchStandardize(probe.answers[1].data[j])


\* C28: when JSearch merges the first and the broadened batch, two records
\* with the same non-empty job id are duplicates whatever their title or
\* company: the first-seen one is kept, and the kept records keep their order
C28_DedupById ==
    (/\ probe.op = "search_jobs" /\ probe.provider = "jsearch"
     /\ Len(probe.queries) = 2)
    => \A i, j \in 1..Len(probe.outcome.value) :
           (i < j /\ probe.outcome.value[i].job_id # "")
               => probe.outcome.value[i].job_id # probe.outcome.value[j].job_id


\* the jobs a JSearch call found: its standardized records, the guidance
\* entry apart
JobsFound ==
    {i \in 1..Len(probe.before_experience) :
        probe.before_experience[i].source # "system_guidance"}

\* C29: search_jobs of JSearch puts the "system_guidance" entry into its
\* result only for an under-covered location whose search found fewer than 3
\* jobs; when 3 or more jobs were found no guidance entry is present
C29_GuidanceOnlyBelowThree ==
    (probe.op = "search_jobs" /\ probe.provider = "jsearch")
    => \A i \in 1..Len(probe.outcome.value) :
           probe.outcome.value[i].source = "system_guidance"
               => /\ UnderCovered
                  /\ Cardinality(JobsFound) < JSearchGuidanceBelow


\* C30: for a request with a location all jobs of the result come from one
\* provider: from the primary, or from the secondary when the primary
\* returned nothing; jobs of both providers are mixed only when no location
\* was supplied
C30_OneProviderWhenLocated ==
    (pc = "done" /\ req.location # "")
    => /\ \A i, j \in 1..Len(result) : result[i].source = result[j].source
       /\ PrimaryReturned # <<>>
              => \A i \in 1..Len(result) : result[i].source = "arbeitnow"
       /\ (\E i \in 1..Len(result) : result[i].source = "adzuna")
              => PrimaryReturned = <<>>

\* a located request whose primary had jobs the filters dropped and whose
\* result is two jobs of the secondary
C30_Witness ==
    /\ pc = "done"
    /\ req.location # ""
    /\ calls[1].answer.data # <<>>
    /\ PrimaryReturned = <<>>
    /\ Len(result) = 2
    /\ \A i \in 1..2 : result[i].source = "adzuna"

\* a request without location whose result mixes the two providers
C30_WitnessMixed ==
    /\ pc = "done"
    /\ req.location = ""
    /\ Len(result) = 2
    /\ result[1].source = "arbeitnow"
    /\ result[2].source = "adzuna"

====
